---------------------------- MODULE Spec2Model ----------------------------
(***************************************************************************)
(* A model of the tokeneer library: the vocabulary preprocessor            *)
(* (src/src/vocab.rs), the BPE tokenizer's construction (src/src/bpe/      *)
(* mod.rs) and its merge engine (src/src/bpe/algorithm.rs).                *)
(*                                                                         *)
(* Bytes are the numbers 0..255, a piece or a text is a sequence of bytes, *)
(* token ids and byte offsets are 0-based as in the source (a sequence     *)
(* element k of the source is element k+1 of the TLA+ sequence).           *)
(***************************************************************************)
EXTENDS Integers, Sequences, FiniteSets, Bags, TLC

VARIABLES
    input,      \* the arguments Bpe::new was called with
    bpe,        \* the tokenizer: vocabs (arena), tokens, sorted_pieces, bytes, unk
    text,       \* MergeState.text
    marks,      \* MergeState.marks / IntoIter.marks
    merges,     \* MergeState.merges, the BinaryHeap, as a bag of candidates
    i,          \* IntoIter.i
    out,        \* the tokens IntoIter::next has returned so far
    pc,         \* where the encode call is
    nmerge,     \* history: how many merge() calls returned true
    ncalls,     \* history: how many merge() calls were made
    applied,    \* history: the last applied candidate with the queue and marks it met
    visited,    \* history: the positions IntoIter::next emitted a token at
    live,       \* history: the positions that begin a token of the partial encoding
    rk,         \* rank(): its input scores and, once applied, its output
    ar,         \* CompressedVocab::new: its input and, once applied, its output
    tk,         \* the Tokeneer: special, special_regex and what its calls returned
    lp,         \* the Lpe tokenizer and its encode loop
    md,         \* from_tokenizer_model: the buffer and, once read, the outcome
    par         \* encode calls running side by side on one Bpe, one MergeState each

vars == <<input, bpe, text, marks, merges, i, out, pc, nmerge, ncalls, applied,
          visited, live, rk, ar, tk, lp, md, par>>

bpeVars == <<input, bpe, text, marks, merges, i, out, pc, nmerge, ncalls, applied,
             visited, live>>

----------------------------------------------------------------------------
(* Bounds of the model.                                                    *)

\* the longest text handed to encode, in characters
MaxChars == 4
\* the longest vocabulary handed to Bpe::new when its arguments are enumerated
MaxVocab == 3
\* the longest score list handed to rank()
MaxScores == 3
\* the scores rank() is tried on are 0..MaxScore
MaxScore == 3
\* the longest piece list handed to CompressedVocab::new
MaxPieces == 3
\* the merge loop and the walk over the marks are cut after this many steps more
\* than the text has bytes
MaxExtra == 1

----------------------------------------------------------------------------
(* Sequences of bytes.                                                     *)

None == [some |-> FALSE]

Some(v) == [some |-> TRUE, val |-> v]

Min(a, b) == IF a <= b THEN a ELSE b

\* text[from..to] of the source: 0-based, `to` excluded
Slice(s, from, to) == SubSeq(s, from + 1, to)

\* The order of [u8] slices (and of &str): lexicographic, a proper prefix first.
RECURSIVE LexLess(_, _)
LexLess(a, b) ==
    IF b = << >> THEN FALSE
    ELSE IF a = << >> THEN TRUE
    ELSE IF Head(a) # Head(b) THEN Head(a) < Head(b)
    ELSE LexLess(Tail(a), Tail(b))

\* the width of the UTF-8 character whose first byte is b
Utf8Width(b) ==
    IF b < 128 THEN 1 ELSE IF b < 224 THEN 2 ELSE IF b < 240 THEN 3 ELSE 4

\* str::char_indices: the byte offsets at which the characters of a text start
RECURSIVE CharIndices(_, _)
CharIndices(t, from) ==
    IF from >= Len(t) THEN << >>
    ELSE <<from>> \o CharIndices(t, from + Utf8Width(t[from + 1]))

----------------------------------------------------------------------------
(* vocab.rs: byte-token escape and the vocabulary collector.               *)

IsHexDigit(c) == (c \in 48..57) \/ (c \in 97..102) \/ (c \in 65..70)

ToNum(c) ==
    IF c \in 48..57 THEN c - 48
    ELSE IF c \in 97..102 THEN c - 97 + 10
    ELSE c - 65 + 10

\* as_byte_token: "<0xHH>" to Some(byte), anything else to None
AsByteToken(piece) ==
    IF /\ Len(piece) = 6
       /\ piece[1] = 60 /\ piece[2] = 48 /\ piece[3] = 120 /\ piece[6] = 62
       /\ IsHexDigit(piece[4]) /\ IsHexDigit(piece[5])
    THEN Some(ToNum(piece[4]) * 16 + ToNum(piece[5]))
    ELSE None

\* The byte table Box<[utok; 256]> is kept as the entries that were written:
\* every entry starts as unk, so an entry never written reads unk.
BytesGet(bytes, unk, x) == IF x \in DOMAIN bytes THEN bytes[x] ELSE unk

\* bytes[x] = t
BytesSet(bytes, x, t) == [y \in (DOMAIN bytes) \cup {x} |-> IF y = x THEN t ELSE bytes[y]]

\* the values of the 256 entries
BytesRange(bytes, unk) ==
    {bytes[x] : x \in DOMAIN bytes} \cup (IF DOMAIN bytes = 0..255 THEN {} ELSE {unk})

\* CollectedVocab::collect_with_hint, the first n items of zip(vocabs, is_byte)
\* folded: ok = FALSE is the panic "is not a valid byte token".
RECURSIVE CollectFold(_, _, _, _)
CollectFold(vocabs, is_byte, unk, n) ==
    IF n = 0
    THEN [ok |-> TRUE, vocabs |-> << >>, total_len |-> 0,
          bytes |-> << >>]
    ELSE LET acc == CollectFold(vocabs, is_byte, unk, n - 1)
             piece == vocabs[n]
             bt == AsByteToken(piece)
         IN  IF ~acc.ok THEN acc
             ELSE IF is_byte[n]
             THEN IF ~bt.some THEN [acc EXCEPT !.ok = FALSE]
                  ELSE [ok |-> TRUE,
                        vocabs |-> Append(acc.vocabs, <<bt.val>>),
                        total_len |-> acc.total_len + 1,
                        bytes |-> BytesSet(acc.bytes, bt.val, n - 1)]
             ELSE [ok |-> TRUE,
                   vocabs |-> Append(acc.vocabs, piece),
                   total_len |-> acc.total_len + Len(piece),
                   bytes |-> acc.bytes]

CollectWithHint(vocabs, is_byte, unk) ==
    CollectFold(vocabs, is_byte, unk, Min(Len(vocabs), Len(is_byte)))

----------------------------------------------------------------------------
(* vocab.rs: the compressed arena.                                         *)

\* memchr::memmem::find: the offset of the first occurrence of v in buf
MemFind(buf, v) ==
    LET hits == {off \in 0..(Len(buf) - Len(v)) : Slice(buf, off, off + Len(v)) = v}
    IN  IF hits = {} THEN None
        ELSE Some(CHOOSE off \in hits : \A o \in hits : off <= o)

\* One turn of the loop of CompressedVocab::new: place piece number idx (0-based).
PlaceAppendAlways(st, vocabs, idx) ==
    LET v == vocabs[idx + 1]
    IN  [text_buf |-> st.text_buf \o v,
         slices |-> [st.slices EXCEPT ![idx + 1] = <<Len(st.text_buf), Len(v)>>]]

Place(st, vocabs, idx) ==
    LET v == vocabs[idx + 1]
        found == MemFind(st.text_buf, v)
        off == IF found.some THEN found.val ELSE Len(st.text_buf)
    IN  [text_buf |-> IF found.some THEN st.text_buf ELSE st.text_buf \o v,
         slices |-> [st.slices EXCEPT ![idx + 1] = <<off, Len(v)>>]]

\* the state of the loop after the first n pieces of `order` were placed
RECURSIVE PlaceFold(_, _, _)
PlaceFold(vocabs, order, n) ==
    IF n = 0
    THEN [text_buf |-> << >>, slices |-> [k \in 1..Len(vocabs) |-> <<0, 0>>]]
    ELSE Place(PlaceFold(vocabs, order, n - 1), vocabs, order[n])

\* sort_unstable_by_key(-len): any arrangement of the indices with the lengths
\* descending; the order among pieces of one length is not specified.
IsLengthDescOrder(vocabs, order) ==
    /\ Len(order) = Len(vocabs)
    /\ {order[k] : k \in 1..Len(order)} = 0..(Len(vocabs) - 1)
    /\ \A k \in 1..(Len(order) - 1) :
          Len(vocabs[order[k] + 1]) >= Len(vocabs[order[k + 1] + 1])

LengthDescOrders(vocabs) ==
    {order \in [1..Len(vocabs) -> 0..(Len(vocabs) - 1)] : IsLengthDescOrder(vocabs, order)}

\* CompressedVocab::new, for the arrangement `order` the sort produced
CompressedVocabNew(vocabs, order) ==
    LET st == PlaceFold(vocabs, order, Len(order))
    IN  [vocabs |-> st.text_buf, slices |-> st.slices]

\* the indices of `left` the sort can hand to the loop next: those of the
\* longest pieces left
Longest(vocabs, left) ==
    {x \in left : \A y \in left : Len(vocabs[x + 1]) >= Len(vocabs[y + 1])}

\* the loop of CompressedVocab::new carried on from the states S, each the
\* state of the loop with the indices still to place, whichever index of the
\* longest pieces left the sort put next
RECURSIVE PlaceRest(_, _)
PlaceRest(vocabs, S) ==
    IF \A s \in S : s.left = {}
    THEN {[vocabs |-> s.st.text_buf, slices |-> s.st.slices] : s \in S}
    ELSE PlaceRest(vocabs,
                   UNION {{[left |-> s.left \ {x}, st |-> Place(s.st, vocabs, x)]
                           : x \in Longest(vocabs, s.left)} : s \in S})

\* CompressedVocab::new: its outcomes over the arrangements of LengthDescOrders
CompressedVocabs(vocabs) ==
    PlaceRest(vocabs, {[left |-> 0..(Len(vocabs) - 1),
                        st |-> PlaceFold(vocabs, << >>, 0)]})

----------------------------------------------------------------------------
(* bpe/mod.rs: rank normalisation.  A score is the key of its f32 in the   *)
(* order of f32::total_cmp, an integer (F32Key below): FloatOrd::cmp        *)
(* compares keys, the derived FloatOrd::eq compares the floats with ==.     *)

\* the keys of +0.0, -0.0, +inf and -inf
PosZero == 0
NegZero == -1
PosInf == 2139095040
NegInf == -2139095041

\* the float of key k is a NaN
IsNaN(k) == k > PosInf \/ k < NegInf

\* #[derive(PartialEq)] on FloatOrd(f32): f32 ==, for which a NaN equals
\* nothing and -0.0 equals +0.0
FloatEq(a, b) == ~IsNaN(a) /\ ~IsNaN(b) /\ (a = b \/ {a, b} = {NegZero, PosZero})

\* s without its element number k
DropAt(s, k) == SubSeq(s, 1, k - 1) \o SubSeq(s, k + 1, Len(s))

\* the stable sort by Ord that BTreeSet::from_iter and BTreeMap::from_iter
\* begin with: entries by ascending key, equal keys in the order they came
RECURSIVE SortByKey(_)
SortByKey(s) ==
    IF s = << >> THEN << >>
    ELSE LET m == CHOOSE k \in 1..Len(s) :
                     /\ \A j \in 1..Len(s) : s[k].key <= s[j].key
                     /\ \A j \in 1..(k - 1) : s[j].key # s[k].key
         IN  <<s[m]>> \o SortByKey(DropAt(s, m))

\* the dedup of the sorted entries as the B-tree is built: an entry is dropped
\* when the entry after it has a key == to its own
RECURSIVE DedupSorted(_)
DedupSorted(s) ==
    IF Len(s) <= 1 THEN s
    ELSE IF FloatEq(s[1].key, s[2].key) THEN DedupSorted(Tail(s))
    ELSE <<s[1]>> \o DedupSorted(Tail(s))

\* .collect::<BTreeSet<_>>(): the entries of the set, ascending
ScoreSet(scores) ==
    DedupSorted(SortByKey([k \in 1..Len(scores) |-> [key |-> scores[k], val |-> 0]]))

\* .into_iter().rev().enumerate().map(|(i, f)| (f, i)).collect::<BTreeMap>():
\* the entries of the map, ascending
RankMap(set) ==
    DedupSorted(SortByKey([j \in 1..Len(set) |->
                              [key |-> set[Len(set) + 1 - j].key, val |-> j - 1]]))

\* the entries a node of the B-tree holds at most
NodeCapacity == 11

\* map.get(&FloatOrd(f)): the entries the search can end on.  None is the
\* panic of map[..].  In a map of one node the search runs over the entries
\* from the left and ends on the first whose key compares Equal; in a map of
\* several nodes it ends on an entry of that key, which one is decided by the
\* shape of the tree.
MapFound(map, f) ==
    LET hits == {k \in 1..Len(map) : map[k].key = f}
    IN  IF hits = {} \/ Len(map) > NodeCapacity THEN hits
        ELSE {CHOOSE k \in hits : \A h \in hits : k <= h}

\* scores.iter().map(|&f| map[&FloatOrd(f)]) collected over the map: ret
\* "panic" is "no entry found for key"
RankOver(map, scores) ==
    LET keys == {scores[k] : k \in 1..Len(scores)}
    IN  IF \E f \in keys : MapFound(map, f) = {} THEN {[ret |-> "panic"]}
        ELSE IF \A f \in keys : Cardinality(MapFound(map, f)) = 1
        THEN {[ret |-> "done",
               ranks |-> [k \in 1..Len(scores) |->
                            map[CHOOSE h \in MapFound(map, scores[k]) : TRUE].val]]}
        ELSE {[ret |-> "done", ranks |-> [k \in 1..Len(scores) |-> map[g[scores[k]]].val]]
              : g \in {h \in [keys -> 1..Len(map)] : \A f \in keys : h[f] \in MapFound(map, f)}}

\* rank(): the outcomes, one rank per score when it returns
Rank(scores) == RankOver(RankMap(ScoreSet(scores)), scores)

----------------------------------------------------------------------------
(* bpe/mod.rs: Bpe::new and the piece index.                               *)

\* TokenMeta::deref through Bpe::token: the bytes of token t
TokenBytes(b, t) ==
    Slice(b.vocabs, b.tokens[t + 1].off, b.tokens[t + 1].off + b.tokens[t + 1].len)

\* self.token(t).len()
TokenLen(b, t) == b.tokens[t + 1].len

\* self.token(t).rank
TokenRank(b, t) == b.tokens[t + 1].rank

\* bytes.iter().chain(&[unk]) filtered out of 0..tokens.len(): the ids indexed
\* the same with the filter left out: every id indexed
IndexedIdsUnfiltered(n, bytes, unk) == 0..(n - 1)

IndexedIds(n, bytes, unk) ==
    {t \in 0..(n - 1) : t \notin (BytesRange(bytes, unk) \cup {unk})}

\* sort_unstable_by_key(|&i| &*tokens[i]): the arrangements of the ids by the
\* order of their pieces; ids with equal pieces come out in any order
RECURSIVE SortByPiece(_, _)
SortByPiece(ids, pieces) ==
    IF ids = {} THEN {<< >>}
    ELSE UNION {{<<m>> \o rest : rest \in SortByPiece(ids \ {m}, pieces)}
                : m \in {x \in ids : \A y \in ids : ~LexLess(pieces[y + 1], pieces[x + 1])}}

\* Bpe::new from the assert_eq on: the tokenizers built of the collected
\* vocabulary c, the arena cv and the scores
BpeBuild(c, cv, scores, unk) ==
    LET n == Len(cv.slices)
        pieces == [k \in 1..n |->
                     Slice(cv.vocabs, cv.slices[k][1], cv.slices[k][1] + cv.slices[k][2])]
    IN  IF n # Len(scores)
        THEN {[ok |-> FALSE, err |-> "scores size mismatch with vocab size"]}
        ELSE UNION {
            IF r.ret = "panic" THEN {[ok |-> FALSE, err |-> "no entry found for key"]}
            ELSE {[ok |-> TRUE,
                   vocabs |-> cv.vocabs,
                   tokens |-> [k \in 1..n |->
                                 [off |-> cv.slices[k][1], len |-> cv.slices[k][2],
                                  rank |-> r.ranks[k]]],
                   sorted_pieces |-> sp,
                   bytes |-> c.bytes,
                   unk |-> unk]
                  : sp \in SortByPiece(IndexedIds(n, c.bytes, unk), pieces)}
            : r \in Rank(scores)}

\* Bpe::new: its outcomes.  ok = FALSE is a panic of the constructor, err its
\* message; the tokenizers differ by what the two unstable sorts did with
\* pieces of one length and with ids of one piece.
BpeNew(vocabs, scores, is_byte, unk) ==
    LET c == CollectWithHint(vocabs, is_byte, unk)
    IN  IF ~c.ok THEN {[ok |-> FALSE, err |-> "is not a valid byte token"]}
        ELSE UNION {BpeBuild(c, cv, scores, unk) : cv \in CompressedVocabs(c.vocabs)}

\* the positions of the sorted index that hold the piece
IndexHits(b, piece) ==
    {k \in 1..Len(b.sorted_pieces) : TokenBytes(b, b.sorted_pieces[k]) = piece}

\* the loop of binary_search_by_key over size entries from position base
\* (0-based): the half that can hold the piece is kept
RECURSIVE Bisect(_, _, _, _)
Bisect(b, piece, base, size) ==
    IF size <= 1 THEN base
    ELSE LET half == size \div 2
             mid == base + half
         IN  Bisect(b, piece,
                    IF LexLess(piece, TokenBytes(b, b.sorted_pieces[mid + 1]))
                    THEN base ELSE mid,
                    size - half)

\* sorted_pieces.binary_search_by_key(&piece, |&i| self.token(i)): Ok(i) as
\* Some(i).  Of several entries with the piece it gives the one the loop ends on.
BinarySearch(b, piece) ==
    IF b.sorted_pieces = << >> THEN None
    ELSE LET k == Bisect(b, piece, 0, Len(b.sorted_pieces))
         IN  IF TokenBytes(b, b.sorted_pieces[k + 1]) = piece THEN Some(k) ELSE None

\* Bpe::find_piece
FindPiece(b, piece) ==
    LET found == BinarySearch(b, piece)
    IN  IF found.some THEN Some(b.sorted_pieces[found.val + 1])
        ELSE IF Len(piece) = 1 THEN Some(BytesGet(b.bytes, b.unk, piece[1]))
        ELSE None

----------------------------------------------------------------------------
(* The vocabularies the tokenizer is built from, as (vocabs, scores,       *)
(* is_byte, unk).  Pieces are written as their bytes:                      *)
(*   a = 97, b = 98, c = 99, e-acute = 195 169, ? = 63,                    *)
(*   "<unk>" = 60 117 110 107 62, "<0xHH>" = 60 48 120 H H 62.             *)

\* every byte of the alphabet has a byte token; a and b have pieces too
VocabFull ==
    [vocabs |-> << <<60, 117, 110, 107, 62>>,      \* 0 <unk>
                   <<60, 48, 120, 54, 49, 62>>,    \* 1 <0x61>
                   <<60, 48, 120, 54, 50, 62>>,    \* 2 <0x62>
                   <<60, 48, 120, 54, 51, 62>>,    \* 3 <0x63>
                   <<60, 48, 120, 67, 51, 62>>,    \* 4 <0xC3>
                   <<60, 48, 120, 97, 57, 62>>,    \* 5 <0xa9>
                   <<97>>,                         \* 6 a
                   <<98>>,                         \* 7 b
                   <<97, 98>>,                     \* 8 ab
                   <<98, 99>>,                     \* 9 bc
                   <<97, 98, 99>>,                 \* 10 abc
                   <<97, 97>>,                     \* 11 aa
                   <<98, 97>> >>,                  \* 12 ba
     scores |-> <<0, 0, 0, 0, 0, 0, 1, 1, 5, 5, 3, 7, 4>>,
     is_byte |-> <<FALSE, TRUE, TRUE, TRUE, TRUE, TRUE,
                   FALSE, FALSE, FALSE, FALSE, FALSE, FALSE, FALSE>>,
     unk |-> 0]

\* c has neither a piece nor a byte token, yet pieces span it; <unk> is 5 bytes
VocabSparse ==
    [vocabs |-> << <<60, 117, 110, 107, 62>>,      \* 0 <unk>
                   <<60, 48, 120, 54, 49, 62>>,    \* 1 <0x61>
                   <<98>>,                         \* 2 b
                   <<97, 98>>,                     \* 3 ab
                   <<195, 169>>,                   \* 4 e-acute
                   <<98, 99>>,                     \* 5 bc
                   <<99, 98>>,                     \* 6 cb
                   <<98, 195, 169>> >>,            \* 7 b e-acute
     scores |-> <<0, 0, 0, 2, 0, 1, 1, 3>>,
     is_byte |-> <<FALSE, TRUE, FALSE, FALSE, FALSE, FALSE, FALSE, FALSE>>,
     unk |-> 0]

\* two byte tokens declare the byte a: the later one takes the byte table
VocabShadow ==
    [vocabs |-> << <<60, 117, 110, 107, 62>>,      \* 0 <unk>
                   <<60, 48, 120, 54, 49, 62>>,    \* 1 <0x61>
                   <<60, 48, 120, 54, 49, 62>>,    \* 2 <0x61>
                   <<60, 48, 120, 54, 50, 62>>,    \* 3 <0x62>
                   <<97, 98>>,                     \* 4 ab
                   <<99>>,                         \* 5 c
                   <<98, 99>> >>,                  \* 6 bc
     scores |-> <<0, 0, 0, 0, 1, 0, 2>>,
     is_byte |-> <<FALSE, TRUE, TRUE, TRUE, FALSE, FALSE, FALSE>>,
     unk |-> 0]

\* no byte tokens; unk is id 2 and its piece is the one byte "?"
VocabShortUnk ==
    [vocabs |-> << <<97>>,                         \* 0 a
                   <<98>>,                         \* 1 b
                   <<63>>,                         \* 2 ? (unk)
                   <<97, 98>>,                     \* 3 ab
                   <<97, 99>>,                     \* 4 ac
                   <<99, 97>> >>,                  \* 5 ca
     scores |-> <<0, 0, 0, 1, 2, 2>>,
     is_byte |-> <<FALSE, FALSE, FALSE, FALSE, FALSE, FALSE>>,
     unk |-> 2]

\* no byte tokens; the piece of unk is empty
VocabEmptyUnk ==
    [vocabs |-> << << >>,                          \* 0 (unk)
                   <<97>>,                         \* 1 a
                   <<97, 99>>,                     \* 2 ac
                   <<98>> >>,                      \* 3 b
     scores |-> <<0, 0, 1, 0>>,
     is_byte |-> <<FALSE, FALSE, FALSE, FALSE>>,
     unk |-> 0]

\* no byte tokens; pieces that grow on both sides: merging (b, c) in "abca"
\* finds a neighbour pair on the left (a, bc) and one on the right (bc, a)
VocabChain ==
    [vocabs |-> << <<60, 117, 110, 107, 62>>,      \* 0 <unk>
                   <<97>>,                         \* 1 a
                   <<98>>,                         \* 2 b
                   <<99>>,                         \* 3 c
                   <<98, 99>>,                     \* 4 bc
                   <<97, 98, 99>>,                 \* 5 abc
                   <<98, 99, 97>>,                 \* 6 bca
                   <<97, 98, 99, 97>>,             \* 7 abca
                   <<97, 98>> >>,                  \* 8 ab
     scores |-> <<0, 0, 0, 0, 5, 3, 4, 1, 2>>,
     is_byte |-> <<FALSE, FALSE, FALSE, FALSE, FALSE, FALSE, FALSE, FALSE, FALSE>>,
     unk |-> 0]

Vocabularies == {VocabFull, VocabSparse, VocabShadow, VocabShortUnk, VocabEmptyUnk}

\* no byte tokens; the piece of unk is empty and cc is a piece though c is not
VocabUnkPair ==
    [vocabs |-> << << >>,                          \* 0 (unk)
                   <<97>>,                         \* 1 a
                   <<99, 99>> >>,                  \* 2 cc
     scores |-> <<0, 0, 1>>,
     is_byte |-> <<FALSE, FALSE, FALSE>>,
     unk |-> 0]

\* the vocabularies the merge engine is run on
BpeVocabularies == Vocabularies \cup {VocabChain, VocabUnkPair}

\* the characters texts are made of: a, b, c and the two-byte e-acute
Alphabet == {<<97>>, <<98>>, <<99>>, <<195, 169>>}

\* the texts of at most n characters
RECURSIVE TextsUpTo(_)
TextsUpTo(n) ==
    IF n = 0 THEN {<< >>}
    ELSE LET shorter == TextsUpTo(n - 1)
         IN  shorter \cup {t \o c : t \in shorter, c \in Alphabet}

Texts == TextsUpTo(MaxChars)

----------------------------------------------------------------------------
(* bpe/algorithm.rs: merge candidates and their order.                     *)

CmpInt(x, y) == IF x < y THEN "Less" ELSE IF x > y THEN "Greater" ELSE "Equal"

\* (utok, utok)::cmp: lexicographic on the two ids
CmpPair(p, q) == IF CmpInt(p[1], q[1]) # "Equal" THEN CmpInt(p[1], q[1]) ELSE CmpInt(p[2], q[2])

Reverse(o) == IF o = "Less" THEN "Greater" ELSE IF o = "Greater" THEN "Less" ELSE "Equal"

\* the chain of matches in Merge::cmp, before .reverse()
CmpFields(self, other) ==
    IF CmpInt(self.rank, other.rank) # "Equal" THEN CmpInt(self.rank, other.rank)
    ELSE IF CmpInt(self.merge, other.merge) # "Equal" THEN CmpInt(self.merge, other.merge)
    ELSE IF CmpInt(self.pos, other.pos) # "Equal" THEN CmpInt(self.pos, other.pos)
    ELSE CmpPair(self.pair, other.pair)

\* Merge::cmp without the final .reverse()
MergeCmpNoReverse(self, other) == CmpFields(self, other)

\* Merge::cmp that stops after rank and merge
MergeCmpNoPos(self, other) ==
    Reverse(IF CmpInt(self.rank, other.rank) # "Equal" THEN CmpInt(self.rank, other.rank)
            ELSE CmpInt(self.merge, other.merge))

\* impl Ord for Merge
MergeCmp(self, other) == Reverse(CmpFields(self, other))

\* BinaryHeap::pop: a greatest element of the heap; of elements that compare
\* Equal the heap may give any
PopCandidates(q) ==
    {m \in BagToSet(q) : \A o \in BagToSet(q) : MergeCmp(o, m) # "Greater"}

Push(q, m) == q (+) SetToBag({m})

Remove(q, m) == q (-) SetToBag({m})

\* build_merge that looks up text[from..to-1], one byte short
BuildMergeOneShort(b, t, from, to, pair) ==
    IF to > Len(t) \/ from > to THEN [panic |-> TRUE, some |-> FALSE]
    ELSE LET merged == FindPiece(b, Slice(t, from, to - 1))
         IN  IF merged.some
             THEN [panic |-> FALSE, some |-> TRUE,
                   val |-> [pos |-> from, pair |-> pair, merge |-> merged.val,
                            rank |-> TokenRank(b, merged.val)]]
             ELSE [panic |-> FALSE, some |-> FALSE]

\* Bpe::build_merge over text[from..to]: panic = TRUE is the slice out of range
BuildMerge(b, t, from, to, pair) ==
    IF to > Len(t) \/ from > to THEN [panic |-> TRUE, some |-> FALSE]
    ELSE LET merged == FindPiece(b, Slice(t, from, to))
         IN  IF merged.some
             THEN [panic |-> FALSE, some |-> TRUE,
                   val |-> [pos |-> from, pair |-> pair, merge |-> merged.val,
                            rank |-> TokenRank(b, merged.val)]]
             ELSE [panic |-> FALSE, some |-> FALSE]

----------------------------------------------------------------------------
(* bpe/algorithm.rs: Bpe::begin_merge.                                     *)

\* marks[i..] zipped with the bytes of c: each gets bytes[b]
RECURSIVE MarkBytes(_, _, _, _, _)
MarkBytes(b, mk, c, at, k) ==
    IF k > Len(c) \/ at + k > Len(mk) THEN mk
    ELSE MarkBytes(b, [mk EXCEPT ![at + k].token = BytesGet(b.bytes, b.unk, c[k])], c, at, k + 1)

\* one turn of the loop over char_indices, for the character at offset at
BeginStep(b, t, st, at) ==
    LET c == Slice(t, at, at + Utf8Width(t[at + 1]))
        found == FindPiece(b, c)
    IN  IF found.some
        THEN LET mk1 == [st.marks EXCEPT ![at + 1].token = found.val]
             IN  IF st.last.some
                 THEN LET pos == st.last.val
                          mk2 == [mk1 EXCEPT ![at + 1].back_distance = at - pos]
                          bm == BuildMerge(b, t, pos, at + Len(c),
                                           <<mk2[pos + 1].token, found.val>>)
                      IN  [marks |-> mk2,
                           merges |-> IF bm.some THEN Push(st.merges, bm.val) ELSE st.merges,
                           last |-> Some(at)]
                 ELSE [marks |-> mk1, merges |-> st.merges, last |-> Some(at)]
        ELSE [marks |-> MarkBytes(b, st.marks, c, at, 1), merges |-> st.merges,
              last |-> None]

RECURSIVE BeginFold(_, _, _, _)
BeginFold(b, t, idx, n) ==
    IF n = 0
    THEN [marks |-> [k \in 1..Len(t) |-> [token |-> b.unk, back_distance |-> 0]],
          merges |-> EmptyBag, last |-> None]
    ELSE BeginStep(b, t, BeginFold(b, t, idx, n - 1), idx[n])

\* Bpe::begin_merge
BeginMerge(b, t) ==
    LET idx == CharIndices(t, 0)
    IN  BeginFold(b, t, idx, Len(idx))

----------------------------------------------------------------------------
(* bpe/algorithm.rs: MergeState::merge.                                    *)

\* "确认合并项有效性": the two checks a popped candidate must pass
StaleFirst(mk, m) == mk[m.pos + 1].token # m.pair[1]

\* ApplyMerge that looks for a new candidate on the right of the merged token
\* only
ApplyMergeRightOnly(b, t, mk, q, m) ==
    LET p1 == m.pos
        l1 == TokenLen(b, m.pair[1])
        p2 == p1 + l1
        mk1 == [mk EXCEPT ![p1 + 1].token = m.merge, ![p2 + 1].token = b.unk]
        l2 == TokenLen(b, m.pair[2])
        p3 == p2 + l2
        hasRight == p3 < Len(mk)
        mk2 == IF hasRight THEN [mk1 EXCEPT ![p3 + 1].back_distance = l1 + l2] ELSE mk1
        t3 == mk1[p3 + 1].token
        p4 == p3 + TokenLen(b, t3)
        right == IF hasRight THEN BuildMerge(b, t, p1, p4, <<m.merge, t3>>)
                 ELSE [panic |-> FALSE, some |-> FALSE]
        q1 == IF right.some THEN Push(q, right.val) ELSE q
    IN  IF right.panic
        THEN [ret |-> "panic", marks |-> mk2, merges |-> q, cand |-> m]
        ELSE [ret |-> "true", marks |-> mk2, merges |-> q1, cand |-> m]

\* the body of merge() after a candidate m passed both checks.  The marks are
\* written before build_merge slices the text, so a call that panics in
\* build_merge leaves the MergeState with the tokens at p1 and p2 and the
\* back_distance at p3 already changed, and with the right candidate pushed
\* when the panic is the left one's
ApplyMerge(b, t, mk, q, m) ==
    LET p1 == m.pos
        l1 == TokenLen(b, m.pair[1])
        p2 == p1 + l1
        mk1 == [mk EXCEPT ![p1 + 1].token = m.merge, ![p2 + 1].token = b.unk]
        l2 == TokenLen(b, m.pair[2])
        p3 == p2 + l2
        hasRight == p3 < Len(mk)
        mk2 == IF hasRight THEN [mk1 EXCEPT ![p3 + 1].back_distance = l1 + l2] ELSE mk1
        t3 == mk1[p3 + 1].token
        p4 == p3 + TokenLen(b, t3)
        right == IF hasRight THEN BuildMerge(b, t, p1, p4, <<m.merge, t3>>)
                 ELSE [panic |-> FALSE, some |-> FALSE]
        q1 == IF right.some THEN Push(q, right.val) ELSE q
        l0 == mk2[p1 + 1].back_distance
        p0 == p1 - l0
        left == IF l0 # 0 THEN BuildMerge(b, t, p0, p3, <<mk2[p0 + 1].token, m.merge>>)
                ELSE [panic |-> FALSE, some |-> FALSE]
        q2 == IF left.some THEN Push(q1, left.val) ELSE q1
    IN  IF right.panic
        THEN [ret |-> "panic", marks |-> mk2, merges |-> q, cand |-> m]
        ELSE IF left.panic
        THEN [ret |-> "panic", marks |-> mk2, merges |-> q1, cand |-> m]
        ELSE [ret |-> "true", marks |-> mk2, merges |-> q2, cand |-> m]

\* merge(): the outcomes of one call on marks mk and heap q
RECURSIVE MergeRun(_, _, _, _)
MergeRun(b, t, mk, q) ==
    IF q = EmptyBag THEN {[ret |-> "false", marks |-> mk, merges |-> q]}
    ELSE UNION {
        LET q1 == Remove(q, m)
            p2 == m.pos + TokenLen(b, m.pair[1])
        IN  IF StaleFirst(mk, m) THEN MergeRun(b, t, mk, q1)
            ELSE IF p2 >= Len(mk)
                 THEN {[ret |-> "panic", marks |-> mk, merges |-> q1, cand |-> m]}
            ELSE IF mk[p2 + 1].token # m.pair[2] THEN MergeRun(b, t, mk, q1)
            ELSE {ApplyMerge(b, t, mk, q1, m)}
        : m \in PopCandidates(q)}

----------------------------------------------------------------------------
(* The encode call: Bpe::encode runs begin_merge, merge() until it returns *)
(* false, and the caller drains IntoIter.                                  *)

NoApplied == [some |-> FALSE]

\* the positions begin_merge writes a token at: the start of every character
\* and, for a character with no piece, each of its bytes
PlacedAt(b, t) ==
    LET idx == CharIndices(t, 0)
    IN  {idx[k] : k \in 1..Len(idx)} \cup
        UNION {IF FindPiece(b, Slice(t, idx[k], idx[k] + Utf8Width(t[idx[k] + 1]))).some
               THEN {}
               ELSE {p \in idx[k]..(idx[k] + Utf8Width(t[idx[k] + 1]) - 1) : p < Len(t)}
               : k \in 1..Len(idx)}

\* the variables of the other components, before any of them was used
ExtOff ==
    /\ tk = [state |-> "none"]
    /\ lp = [state |-> "none"]
    /\ md = [done |-> FALSE]
    /\ par = << >>

\* begin_merge(text) for some text
Begin ==
    /\ pc = "idle"
    /\ \E t \in Texts :
          LET st == BeginMerge(bpe, t)
          IN  /\ text' = t
              /\ marks' = st.marks
              /\ merges' = st.merges
              /\ live' = PlacedAt(bpe, t)
    /\ pc' = "merging"
    /\ UNCHANGED <<input, bpe, i, out, nmerge, ncalls, applied, visited, rk, ar, tk, lp,
                   md, par>>

\* one merge() call of the loop `while tokenizer.merge() {}`
Merge ==
    /\ pc = "merging"
    /\ nmerge < Len(text) + MaxExtra
    /\ \E o \in MergeRun(bpe, text, marks, merges) :
          /\ marks' = o.marks
          /\ merges' = o.merges
          /\ ncalls' = ncalls + 1
          /\ nmerge' = IF o.ret = "true" THEN nmerge + 1 ELSE nmerge
          /\ applied' = IF o.ret = "true"
                        THEN [some |-> TRUE, cand |-> o.cand, queue |-> merges,
                              marks |-> marks]
                        ELSE applied
          /\ live' = IF o.ret = "true"
                     THEN live \ {o.cand.pos + TokenLen(bpe, o.cand.pair[1])}
                     ELSE live
          /\ pc' = IF o.ret = "true" THEN "merging"
                   ELSE IF o.ret = "false" THEN "walking" ELSE "panic"
    /\ UNCHANGED <<input, bpe, text, i, out, visited, rk, ar, tk, lp, md, par>>

\* IntoIter::next
WalkNext ==
    /\ pc = "walking"
    /\ Len(out) < Len(text) + MaxExtra
    /\ IF i > Len(marks)
       THEN /\ pc' = "panic"
            /\ UNCHANGED <<i, out, visited>>
       ELSE IF i = Len(marks)
       THEN /\ pc' = "done"
            /\ UNCHANGED <<i, out, visited>>
       ELSE /\ i' = i + TokenLen(bpe, marks[i + 1].token)
            /\ out' = Append(out, marks[i + 1].token)
            /\ visited' = Append(visited, i)
            /\ pc' = "walking"
    /\ UNCHANGED <<input, bpe, text, marks, merges, nmerge, ncalls, applied, live, rk, ar,
                   tk, lp, md, par>>

Init ==
    /\ input \in BpeVocabularies
    /\ bpe \in BpeNew(input.vocabs, input.scores, input.is_byte, input.unk)
    /\ text = << >>
    /\ marks = << >>
    /\ merges = EmptyBag
    /\ i = 0
    /\ out = << >>
    /\ pc = "idle"
    /\ nmerge = 0
    /\ ncalls = 0
    /\ applied = NoApplied
    /\ visited = << >>
    /\ live = {}
    /\ rk = [done |-> FALSE]
    /\ ar = [done |-> FALSE]
    /\ ExtOff

Next == Begin \/ Merge \/ WalkNext

Spec == Init /\ [][Next]_vars

----------------------------------------------------------------------------
(* Notions the properties of encode are stated with.                       *)

\* Method::decode over a token sequence: the tokens' bytes, concatenated
RECURSIVE DecodeAll(_, _)
DecodeAll(b, toks) ==
    IF toks = << >> THEN << >>
    ELSE TokenBytes(b, Head(toks)) \o DecodeAll(b, Tail(toks))

\* the offset at which the character holding byte offset p starts
CharStart(t, p) ==
    LET idx == CharIndices(t, 0)
    IN  idx[CHOOSE k \in 1..Len(idx) :
               idx[k] <= p /\ p < idx[k] + Utf8Width(t[idx[k] + 1])]

\* the character holding byte offset p has a piece in the index
CharHasPiece(b, t, p) ==
    LET s == CharStart(t, p)
    IN  IndexHits(b, Slice(t, s, s + Utf8Width(t[s + 1]))) # {}

\* byte offset p has no piece and no byte token: begin_merge leaves UNK there
Unrepresentable(b, t, p) ==
    ~CharHasPiece(b, t, p) /\ BytesGet(b.bytes, b.unk, t[p + 1]) = b.unk

\* no byte position of the text yields UNK
Representable(b, t) ==
    \A p \in 0..(Len(t) - 1) : ~Unrepresentable(b, t, p)

\* the ids the byte table holds for a declared byte
ByteTokenIds(b) == BytesRange(b.bytes, b.unk) \ {b.unk}

\* a candidate is valid on marks mk
ValidOn(b, mk, m) ==
    /\ mk[m.pos + 1].token = m.pair[1]
    /\ m.pos + TokenLen(b, m.pair[1]) < Len(mk)
    /\ mk[m.pos + TokenLen(b, m.pair[1]) + 1].token = m.pair[2]

\* (rank, merge, pos, pair) of x is lexicographically at most that of y
PriorityLeq(x, y) ==
    \/ x.rank < y.rank
    \/ /\ x.rank = y.rank
       /\ \/ x.merge < y.merge
          \/ /\ x.merge = y.merge
             /\ \/ x.pos < y.pos
                \/ /\ x.pos = y.pos
                   /\ \/ x.pair[1] < y.pair[1]
                      \/ (x.pair[1] = y.pair[1] /\ x.pair[2] <= y.pair[2])

----------------------------------------------------------------------------
(* Properties of encode.                                                   *)

\* C1: round trip.  For a text in which no byte position yields UNK the call
\* does not panic, and once the walk has ended the bytes of the returned tokens,
\* concatenated in order, are the bytes of the text.
C1_RoundTrip ==
    (pc # "idle" /\ Representable(bpe, text)) =>
        /\ pc # "panic"
        /\ pc = "done" => DecodeAll(bpe, out) = text

\* a finished encode of a representable text with two applied merges whose
\* output holds a byte token
C1_Witness ==
    /\ pc = "done"
    /\ Representable(bpe, text)
    /\ nmerge >= 2
    /\ \E k \in 1..Len(out) : out[k] \in ByteTokenIds(bpe)

\* C2: encoding never fails: no step of encode indexes marks or text out of
\* range, whatever the text.
C2_NeverFails == pc # "panic"

\* C3: UNK is emitted for an unrepresentable byte and only for it: the mark at
\* such a position p holds UNK, the walk emits UNK at p and resumes at p + 1,
\* and a finished walk has emitted a token at every such p.
C3_UnkSpansOneByte ==
    /\ pc \in {"merging", "walking", "done"} =>
          \A p \in 0..(Len(text) - 1) :
              Unrepresentable(bpe, text, p) => marks[p + 1].token = bpe.unk
    /\ pc \in {"walking", "done"} =>
          \A k \in 1..Len(visited) :
              Unrepresentable(bpe, text, visited[k]) =>
                  /\ out[k] = bpe.unk
                  /\ (IF k < Len(visited) THEN visited[k + 1] ELSE i) = visited[k] + 1
    /\ pc = "done" =>
          \A p \in 0..(Len(text) - 1) :
              Unrepresentable(bpe, text, p) => \E k \in 1..Len(visited) : visited[k] = p

\* C4: greedy correctness.  The candidate a merge() call applied is minimal in
\* (rank, merge, pos, pair) among the candidates that were in the queue when the
\* call began and were valid on the marks of that moment.
C4_Greedy ==
    applied.some =>
        \A m \in BagToSet(applied.queue) :
            ValidOn(bpe, applied.marks, m) => PriorityLeq(applied.cand, m)

\* a merge was applied while another valid candidate of the same rank and a
\* larger merge id was queued
C4_Witness ==
    /\ applied.some
    /\ Representable(bpe, text)
    /\ \E m \in BagToSet(applied.queue) :
          /\ ValidOn(bpe, applied.marks, m)
          /\ m.rank = applied.cand.rank
          /\ m.merge > applied.cand.merge

\* C5: merge termination: merge() returns true at most len(T) times, so the
\* loop of encode ends within len(T) + 1 calls.
C5_MergeBound == nmerge <= Len(text) /\ ncalls <= Len(text) + 1

\* C6: determinism.  No two distinct queued candidates compare Equal, so a
\* merge() call has one outcome whatever order the candidates were pushed in.
C6_Deterministic ==
    /\ \A m, o \in BagToSet(merges) : m # o => MergeCmp(m, o) # "Equal"
    /\ pc = "merging" => Cardinality(MergeRun(bpe, text, marks, merges)) = 1

\* two candidates of one rank and one merge id are queued at different positions
C6_Witness ==
    /\ pc = "merging"
    /\ \E m, o \in BagToSet(merges) :
          m.rank = o.rank /\ m.merge = o.merge /\ m.pos # o.pos

----------------------------------------------------------------------------
(* Bpe::new over enumerated arguments.                                     *)

OffState ==
    /\ text = << >>
    /\ marks = << >>
    /\ merges = EmptyBag
    /\ i = 0
    /\ out = << >>
    /\ nmerge = 0
    /\ ncalls = 0
    /\ applied = NoApplied
    /\ visited = << >>
    /\ live = {}

\* raw pieces: "<0x61>", "<0x62>", "a", "ab"
NewPool ==
    {<<60, 48, 120, 54, 49, 62>>, <<60, 48, 120, 54, 50, 62>>, <<97>>, <<97, 98>>}

\* a score list of length l
ScoresOfLen(l) == [k \in 1..l |-> (l - k) % 3]

\* the hint lists of n - 1 .. n + 1 hints
HintsAround(n) == UNION {[1..m -> BOOLEAN] : m \in {x \in (n - 1)..(n + 1) : x >= 0}}

\* the argument lists: n pieces, n - 1 .. n + 1 hints, n - 1 .. n + 1 scores,
\* unk an id
NewInputs(n) ==
    {[vocabs |-> v, is_byte |-> h, scores |-> ScoresOfLen(l), unk |-> u] :
        v \in [1..n -> NewPool], h \in HintsAround(n),
        l \in {x \in (n - 1)..(n + 1) : x >= 0},
        u \in 0..(IF n = 0 THEN 0 ELSE n - 1)}

InitNew ==
    /\ \E n \in 0..MaxVocab : input \in NewInputs(n)
    /\ bpe = [ok |-> FALSE]
    /\ pc = "new"
    /\ OffState
    /\ rk = [done |-> FALSE]
    /\ ar = [done |-> FALSE]
    /\ ExtOff

\* Bpe::new(vocabs, scores, is_byte, unk)
New ==
    /\ pc = "new"
    /\ bpe' \in BpeNew(input.vocabs, input.scores, input.is_byte, input.unk)
    /\ pc' = IF bpe'.ok THEN "built" ELSE "failed"
    /\ UNCHANGED <<input, text, marks, merges, i, out, nmerge, ncalls, applied,
                   visited, live, rk, ar, tk, lp, md, par>>

SpecNew == InitNew /\ [][New]_vars

\* C7: piece-index exclusivity.  After Bpe::new no id of sorted_pieces is unk
\* or a value of the byte table, and sorted_pieces is sorted by the pieces' bytes.
C7_IndexExclusive ==
    pc = "built" =>
        LET sp == bpe.sorted_pieces
        IN  /\ \A k \in 1..Len(sp) :
                  sp[k] # bpe.unk /\ sp[k] \notin BytesRange(bpe.bytes, bpe.unk)
            /\ \A k \in 1..(Len(sp) - 1) :
                  ~LexLess(TokenBytes(bpe, sp[k + 1]), TokenBytes(bpe, sp[k]))

\* a tokenizer was built with a byte token, and the index holds two ids that
\* the sort had to exchange
C7_Witness ==
    /\ pc = "built"
    /\ DOMAIN bpe.bytes # {}
    /\ Len(bpe.sorted_pieces) >= 2
    /\ bpe.sorted_pieces[1] > bpe.sorted_pieces[2]

\* C8: the piece index excludes every id the collector treated as a byte
\* token, so find_piece on one byte b with no normal piece returns bytes[b].
C8_NoByteTokenIndexed ==
    pc = "built" =>
        /\ \A t \in 0..(Len(bpe.tokens) - 1) :
              input.is_byte[t + 1] =>
                  \A k \in 1..Len(bpe.sorted_pieces) : bpe.sorted_pieces[k] # t
        /\ \A x \in {97, 98} :
              (\A t \in 0..(Len(bpe.tokens) - 1) :
                    input.is_byte[t + 1] \/ input.vocabs[t + 1] # <<x>>)
                  => FindPiece(bpe, <<x>>) = Some(BytesGet(bpe.bytes, bpe.unk, x))

----------------------------------------------------------------------------
(* rank() over enumerated scores.                                          *)

\* the key of the NaN with bits 0x7fc00000
QuietNaN == 2143289344

\* the scores rank() is tried on: the floats of keys 0..MaxScore (key 0 is
\* +0.0), -0.0 and a NaN
ScoreLists == UNION {[1..n -> (0..MaxScore) \cup {NegZero, QuietNaN}] : n \in 0..MaxScores}

InitRank ==
    /\ input = [ok |-> FALSE]
    /\ bpe = [ok |-> FALSE]
    /\ pc = "off"
    /\ OffState
    /\ rk \in {[done |-> FALSE, scores |-> sc] : sc \in ScoreLists}
    /\ ar = [done |-> FALSE]
    /\ ExtOff

\* rank(&scores) collected
RankApply ==
    /\ ~rk.done
    /\ \E r \in Rank(rk.scores) :
          rk' = [done |-> TRUE, scores |-> rk.scores, ret |-> r.ret,
                 ranks |-> IF r.ret = "done" THEN r.ranks ELSE << >>]
    /\ UNCHANGED <<bpeVars, ar, tk, lp, md, par>>

SpecRank == InitRank /\ [][RankApply]_vars

\* C9: rank normalisation.  One rank per score; equal scores get equal ranks; a
\* strictly higher score gets a strictly smaller rank; the ranks used are
\* exactly 0..k-1 for k distinct scores, so the highest score has rank 0.
C9_RankNormalised ==
    rk.done =>
        LET sc == rk.scores
            r == rk.ranks
            k == Cardinality({sc[j] : j \in 1..Len(sc)})
        IN  /\ rk.ret = "done"
            /\ DOMAIN r = DOMAIN sc
            /\ \A a, b \in 1..Len(sc) :
                  /\ sc[a] = sc[b] => r[a] = r[b]
                  /\ sc[a] > sc[b] => r[a] < r[b]
            /\ {r[j] : j \in 1..Len(sc)} = 0..(k - 1)
            /\ \A a \in 1..Len(sc) :
                  (\A b \in 1..Len(sc) : sc[b] <= sc[a]) => r[a] = 0

\* rank() was applied to three scores, two of them equal
C9_Witness ==
    /\ rk.done
    /\ Len(rk.scores) = 3
    /\ rk.scores[1] = rk.scores[3]
    /\ rk.scores[1] < rk.scores[2]

----------------------------------------------------------------------------
(* CompressedVocab::new over enumerated effective pieces.                  *)

\* "hello", "ell", "lo", "l", "he" and the empty piece
ArenaPool ==
    {<<104, 101, 108, 108, 111>>, <<101, 108, 108>>, <<108, 111>>, <<108>>,
     <<104, 101>>, << >>}


\* total_len as the collector adds it up
RECURSIVE TotalLen(_)
TotalLen(vocabs) ==
    IF vocabs = << >> THEN 0 ELSE Len(Head(vocabs)) + TotalLen(Tail(vocabs))

InitArena ==
    /\ input = [ok |-> FALSE]
    /\ bpe = [ok |-> FALSE]
    /\ pc = "off"
    /\ OffState
    /\ rk = [done |-> FALSE]
    /\ ar \in {[done |-> FALSE, vocabs |-> v]
                : v \in UNION {[1..n -> ArenaPool] : n \in 0..MaxPieces}}
    /\ ExtOff

\* CompressedVocab::new(&vocabs, total_len), for one outcome of the unstable
\* sort; bufs[n + 1] is text_buf after n pieces were placed
ArenaNew ==
    /\ ~ar.done
    /\ \E order \in LengthDescOrders(ar.vocabs) :
          LET cv == CompressedVocabNew(ar.vocabs, order)
          IN  ar' = [done |-> TRUE, vocabs |-> ar.vocabs, order |-> order,
                     total_len |-> TotalLen(ar.vocabs),
                     arena |-> cv.vocabs, slices |-> cv.slices,
                     bufs |-> [n \in 1..(Len(order) + 1) |->
                                  PlaceFold(ar.vocabs, order, n - 1).text_buf]]
    /\ UNCHANGED <<bpeVars, rk, tk, lp, md, par>>

SpecArena == InitArena /\ [][ArenaNew]_vars

\* v occurs in buf
IsSubstring(v, buf) ==
    \E off \in 0..(Len(buf) - Len(v)) : SubSeq(buf, off + 1, off + Len(v)) = v

\* C10: arena invariant.  Every recorded (offset, length) addresses the piece's
\* own bytes in the arena; the arena is no longer than total_len; a piece that
\* occurs in the bytes placed before it adds no bytes; and the arena of
\* ["hello", "ell", "lo"] is "hello".
C10_Arena ==
    ar.done =>
        /\ \A k \in 1..Len(ar.vocabs) :
              /\ ar.slices[k][2] = Len(ar.vocabs[k])
              /\ ar.slices[k][1] + ar.slices[k][2] <= Len(ar.arena)
              /\ SubSeq(ar.arena, ar.slices[k][1] + 1, ar.slices[k][1] + ar.slices[k][2])
                    = ar.vocabs[k]
        /\ Len(ar.arena) <= ar.total_len
        /\ \A n \in 1..Len(ar.order) :
              IsSubstring(ar.vocabs[ar.order[n] + 1], ar.bufs[n])
                  => ar.bufs[n + 1] = ar.bufs[n]
        /\ ar.vocabs = <<<<104, 101, 108, 108, 111>>, <<101, 108, 108>>, <<108, 111>>>>
              => ar.arena = <<104, 101, 108, 108, 111>>

\* the arena of ["ell", "hello", "lo"] was built: the pieces are not given
\* longest first and both short ones are found in "hello"
C10_Witness ==
    /\ ar.done
    /\ ar.vocabs = <<<<101, 108, 108>>, <<104, 101, 108, 108, 111>>, <<108, 111>>>>
    /\ ar.arena = <<104, 101, 108, 108, 111>>
    /\ ar.slices = <<<<1, 3>>, <<0, 5>>, <<3, 2>>>>

----------------------------------------------------------------------------
(* bpe/mod.rs: Method for Bpe.  A whole encode call, as its caller sees it: *)
(* ret is "done", "panic", or "cut" when the call was still running after   *)
(* Len(t) + MaxExtra applied merges or emitted tokens.                      *)

\* `while tokenizer.merge() {}` after n calls returned true
RECURSIVE MergeLoop(_, _, _, _, _)
MergeLoop(b, t, mk, q, n) ==
    IF n >= Len(t) + MaxExtra THEN {[ret |-> "cut", marks |-> mk]}
    ELSE UNION {IF o.ret = "true" THEN MergeLoop(b, t, o.marks, o.merges, n + 1)
                ELSE {[ret |-> o.ret, marks |-> o.marks]}
                : o \in MergeRun(b, t, mk, q)}

\* IntoIter drained by its caller, from offset at with acc already returned
RECURSIVE Drain(_, _, _, _)
Drain(b, mk, at, acc) ==
    IF Len(acc) >= Len(mk) + MaxExtra THEN [ret |-> "cut", out |-> acc]
    ELSE IF at > Len(mk) THEN [ret |-> "panic", out |-> acc]
    ELSE IF at = Len(mk) THEN [ret |-> "done", out |-> acc]
    ELSE Drain(b, mk, at + TokenLen(b, mk[at + 1].token), Append(acc, mk[at + 1].token))

\* Bpe::encode(text) collected: the outcomes of the call
Encode(b, t) ==
    LET st == BeginMerge(b, t)
    IN  {IF m.ret = "false" THEN Drain(b, m.marks, 0, << >>)
         ELSE [ret |-> m.ret, out |-> << >>]
         : m \in MergeLoop(b, t, st.marks, st.merges, 0)}

\* self.encode(s).into_iter().nth(1).is_some(): the iterator is asked twice
Nth1IsSome(b, mk) ==
    IF Len(mk) = 0 THEN [ret |-> "done", val |-> FALSE]
    ELSE LET i1 == TokenLen(b, mk[1].token)
         IN  IF i1 > Len(mk) THEN [ret |-> "panic", val |-> FALSE]
             ELSE [ret |-> "done", val |-> i1 < Len(mk)]

\* HashMap::insert
MapInsert(m, k, v) == [x \in (DOMAIN m) \cup {k} |-> IF x = k THEN v ELSE m[x]]

\* Bpe::inaccessible after the first n ids of sorted_pieces were probed
RECURSIVE InaccessibleFold(_, _)
InaccessibleFold(b, n) ==
    IF n = 0 THEN {[ret |-> "done", map |-> << >>]}
    ELSE UNION {
        IF acc.ret # "done" THEN {acc}
        ELSE LET t == b.sorted_pieces[n]
                 s == TokenBytes(b, t)
                 st == BeginMerge(b, s)
             IN  {IF m.ret # "false" THEN [ret |-> m.ret, map |-> acc.map]
                  ELSE LET more == Nth1IsSome(b, m.marks)
                       IN  IF more.ret # "done" THEN [ret |-> more.ret, map |-> acc.map]
                           ELSE IF more.val
                           THEN [ret |-> "done", map |-> MapInsert(acc.map, s, t)]
                           ELSE acc
                  : m \in MergeLoop(b, s, st.marks, st.merges, 0)}
        : acc \in InaccessibleFold(b, n - 1)}

\* Bpe::inaccessible, which Bpe::internal_special returns
Inaccessible(b) == InaccessibleFold(b, Len(b.sorted_pieces))

\* String::from_utf8 accepts the bytes
RECURSIVE IsUtf8(_)
IsUtf8(s) ==
    IF s = << >> THEN TRUE
    ELSE LET b1 == s[1]
             Cont(k) == k <= Len(s) /\ s[k] \in 128..191
         IN  IF b1 < 128 THEN IsUtf8(Tail(s))
             ELSE IF b1 \in 194..223
             THEN Cont(2) /\ IsUtf8(SubSeq(s, 3, Len(s)))
             ELSE IF b1 \in 224..239
             THEN /\ Cont(2) /\ Cont(3)
                  /\ (b1 = 224 => s[2] >= 160)
                  /\ (b1 = 237 => s[2] <= 159)
                  /\ IsUtf8(SubSeq(s, 4, Len(s)))
             ELSE IF b1 \in 240..244
             THEN /\ Cont(2) /\ Cont(3) /\ Cont(4)
                  /\ (b1 = 240 => s[2] >= 144)
                  /\ (b1 = 244 => s[2] <= 143)
                  /\ IsUtf8(SubSeq(s, 5, Len(s)))
             ELSE FALSE

\* k.is_ascii()
IsAscii(s) == \A k \in 1..Len(s) : s[k] < 128

----------------------------------------------------------------------------
(* tokeneer.rs: the pattern of special literals and the regex built of it.  *)
(* Bytes: < = 60, > = 62, s = 115, / = 47, . = 46, | = 124, \ = 92.         *)

\* the set SPECIAL of build_pattern: * . ? + ^ $ | / \ ( ) [ ] { }
SPECIAL == {42, 46, 63, 43, 94, 36, 124, 47, 92, 40, 41, 91, 93, 123, 125}

\* the inner loop of build_pattern over one key, without the backslash
EscapeNone(p) == p

\* the inner loop of build_pattern over one key
RECURSIVE Escape(_)
Escape(p) ==
    IF p = << >> THEN << >>
    ELSE (IF Head(p) \in SPECIAL THEN <<92, Head(p)>> ELSE <<Head(p)>>) \o Escape(Tail(p))

\* the outer loop: every key escaped and followed by '|'
RECURSIVE PatternOf(_)
PatternOf(keys) ==
    IF keys = << >> THEN << >>
    ELSE Escape(Head(keys)) \o <<124>> \o PatternOf(Tail(keys))

\* build_pattern up to Regex::new: the loop, then pattern.pop()
BuildPattern(keys) ==
    LET pattern == PatternOf(keys)
    IN  IF pattern = << >> THEN << >> ELSE SubSeq(pattern, 1, Len(pattern) - 1)

\* Regex::new on a pattern build_pattern can write: alternatives separated by
\* an unescaped '|', each a sequence of atoms; '\' makes the next byte a
\* literal, an unescaped '.' stands for any character but a line feed, every
\* other byte is a literal.  A pattern ending in a lone '\' is rejected.
RECURSIVE ParseAlts(_, _, _, _)
ParseAlts(p, k, cur, alts) ==
    IF k > Len(p) THEN [ok |-> TRUE, alts |-> Append(alts, cur)]
    ELSE IF p[k] = 92
    THEN IF k = Len(p) THEN [ok |-> FALSE, alts |-> << >>]
         ELSE ParseAlts(p, k + 2, Append(cur, [kind |-> "lit", b |-> p[k + 1]]), alts)
    ELSE IF p[k] = 124 THEN ParseAlts(p, k + 1, << >>, Append(alts, cur))
    ELSE IF p[k] = 46 THEN ParseAlts(p, k + 1, Append(cur, [kind |-> "any"]), alts)
    ELSE ParseAlts(p, k + 1, Append(cur, [kind |-> "lit", b |-> p[k]]), alts)

\* Regex::new(&pattern): ok = FALSE is the Err that unwrap() panics on
RegexNew(pattern) ==
    LET r == ParseAlts(pattern, 1, << >>, << >>)
    IN  [ok |-> r.ok, pattern |-> pattern, alts |-> r.alts]

\* where the alternative alt, from its atom k on, ends when matched against t
\* at offset at; -1 when it does not match
RECURSIVE MatchAlt(_, _, _, _)
MatchAlt(alt, t, k, at) ==
    IF k > Len(alt) THEN at
    ELSE IF at >= Len(t) THEN -1
    ELSE IF alt[k].kind = "lit"
    THEN IF t[at + 1] = alt[k].b THEN MatchAlt(alt, t, k + 1, at + 1) ELSE -1
    ELSE IF t[at + 1] = 10 \/ at + Utf8Width(t[at + 1]) > Len(t) THEN -1
    ELSE MatchAlt(alt, t, k + 1, at + Utf8Width(t[at + 1]))

\* the match at offset at: of the alternatives that match there the first one
MatchAt(alts, t, at) ==
    LET hits == {k \in 1..Len(alts) : MatchAlt(alts[k], t, 1, at) # -1}
    IN  IF hits = {} THEN None
        ELSE Some(MatchAlt(alts[CHOOSE k \in hits : \A h \in hits : k <= h], t, 1, at))

\* offset at of t is a character boundary
IsBoundary(t, at) == at = Len(t) \/ t[at + 1] \notin 128..191

\* Regex::find_at: the leftmost match starting at offset from or later
RECURSIVE FindAt(_, _, _)
FindAt(alts, t, from) ==
    IF from > Len(t) THEN None
    ELSE IF IsBoundary(t, from) /\ MatchAt(alts, t, from).some
    THEN Some([start |-> from, end |-> MatchAt(alts, t, from).val])
    ELSE FindAt(alts, t, from + 1)

\* the offset of the character after offset at
NextAfterEmpty(t, at) == IF at >= Len(t) THEN at + 1 ELSE at + Utf8Width(t[at + 1])

\* Regex::find_iter collected: successive matches; an empty match moves the
\* search one character on and is dropped when it touches the match before it
RECURSIVE FindIter(_, _, _, _)
FindIter(alts, t, last_end, last_match) ==
    IF last_end > Len(t) THEN << >>
    ELSE LET m == FindAt(alts, t, last_end)
         IN  IF ~m.some THEN << >>
             ELSE IF m.val.start = m.val.end
             THEN IF last_match = Some(m.val.end)
                  THEN FindIter(alts, t, NextAfterEmpty(t, m.val.end), last_match)
                  ELSE <<m.val>> \o FindIter(alts, t, NextAfterEmpty(t, m.val.end),
                                             Some(m.val.end))
             ELSE <<m.val>> \o FindIter(alts, t, m.val.end, Some(m.val.end))

----------------------------------------------------------------------------
(* tokeneer.rs: Tokeneer<Bpe>.  special maps a key to its token sequence    *)
(* (TokenSeq seen through Deref); keys is the order HashMap::keys gave      *)
(* build_pattern the last time the regex was built.                         *)

\* the arrangements of a finite set: what iterating a HashMap can give
Orders(S) ==
    {f \in [1..Cardinality(S) -> S] : \A a, b \in 1..Cardinality(S) : a # b => f[a] # f[b]}

\* the loop of Tokeneer::encode from match number k on, start being the end of
\* the match before it and acc the tokens collected so far
RECURSIVE EncodeSplit(_, _, _, _, _, _, _)
EncodeSplit(b, special, t, ms, k, start, acc) ==
    IF k > Len(ms)
    THEN {[ret |-> e.ret, out |-> IF e.ret = "done" THEN acc \o e.out ELSE acc]
          : e \in Encode(b, Slice(t, start, Len(t)))}
    ELSE UNION {
        IF e.ret # "done" THEN {[ret |-> e.ret, out |-> acc]}
        ELSE LET key == Slice(t, ms[k].start, ms[k].end)
             IN  IF key \notin DOMAIN special THEN {[ret |-> "nokey", out |-> acc \o e.out]}
                 ELSE EncodeSplit(b, special, t, ms, k + 1, ms[k].end,
                                  acc \o e.out \o special[key])
        : e \in Encode(b, Slice(t, start, ms[k].start))}

\* the matches of a Tokeneer::encode that runs the regex though its pattern is
\* empty
SpecialMatchesNoSkip(regex, t) == FindIter(regex.alts, t, 0, None)

\* the matches the loop of Tokeneer::encode runs over
SpecialMatches(regex, t) ==
    IF regex.pattern = << >> THEN << >> ELSE FindIter(regex.alts, t, 0, None)

\* Tokeneer::decode: ret "panic" when a token is no index of the token table
\* or the bytes are not UTF-8
TokeneerDecode(b, toks) ==
    IF \E k \in 1..Len(toks) : toks[k] >= Len(b.tokens) THEN [ret |-> "panic"]
    ELSE IF ~IsUtf8(DecodeAll(b, toks)) THEN [ret |-> "panic"]
    ELSE [ret |-> "done", str |-> DecodeAll(b, toks)]

\* One (k, v) of the batch of extend_special, an occupied entry overwritten
ExtendEntryOverwrite(special, k, v) ==
    [ret |-> "done", special |-> MapInsert(special, k, v), inserted |-> k \notin DOMAIN special]

\* One (k, v) of the batch of extend_special: ret "panic" is the assert_eq
ExtendEntry(special, k, v) ==
    IF k \in DOMAIN special
    THEN IF special[k] = v THEN [ret |-> "done", special |-> special, inserted |-> FALSE]
         ELSE [ret |-> "panic", special |-> special, inserted |-> FALSE]
    ELSE [ret |-> "done", special |-> MapInsert(special, k, v), inserted |-> TRUE]

\* the loop of extend_special from pair number n on
RECURSIVE ExtendFold(_, _, _, _)
ExtendFold(special, batch, n, any) ==
    IF n > Len(batch) THEN [ret |-> "done", special |-> special, any |-> any]
    ELSE LET e == ExtendEntry(special, batch[n][1], batch[n][2])
         IN  IF e.ret # "done" THEN [ret |-> e.ret, special |-> e.special, any |-> any]
             ELSE ExtendFold(e.special, batch, n + 1, any \/ e.inserted)

\* a vocabulary in the manner of a sentencepiece model: every byte of the
\* texts has a byte token, "<s>" and "a.b" are pieces no merge reaches
VocabTok ==
    [vocabs |-> << <<60, 117, 110, 107, 62>>,      \* 0 <unk>
                   <<60, 48, 120, 51, 67, 62>>,    \* 1 <0x3C>  '<'
                   <<60, 48, 120, 55, 51, 62>>,    \* 2 <0x73>  's'
                   <<60, 48, 120, 51, 69, 62>>,    \* 3 <0x3E>  '>'
                   <<60, 48, 120, 54, 49, 62>>,    \* 4 <0x61>  'a'
                   <<60, 48, 120, 54, 50, 62>>,    \* 5 <0x62>  'b'
                   <<60, 48, 120, 50, 69, 62>>,    \* 6 <0x2E>  '.'
                   <<60, 115, 62>>,                \* 7 <s>
                   <<97, 98>>,                     \* 8 ab
                   <<97, 46, 98>> >>,              \* 9 a.b
     scores |-> <<0, 0, 0, 0, 0, 0, 0, 0, 1, 0>>,
     is_byte |-> <<FALSE, TRUE, TRUE, TRUE, TRUE, TRUE, TRUE, FALSE, FALSE, FALSE>>,
     unk |-> 0]


\* the texts handed to Tokeneer::encode are made of "<s>", "a", "b", ".",
\* "<" and "s>"
TokChunks == {<<60, 115, 62>>, <<97>>, <<98>>, <<46>>, <<60>>, <<115, 62>>}

\* the longest text handed to Tokeneer::encode, in chunks
MaxTokChunks == 3

RECURSIVE TokTextsUpTo(_)
TokTextsUpTo(n) ==
    IF n = 0 THEN {<< >>}
    ELSE LET shorter == TokTextsUpTo(n - 1)
         IN  shorter \cup {t \o c : t \in shorter, c \in TokChunks}

TokTexts == TokTextsUpTo(MaxTokChunks)

\* the pairs handed to extend_special: ("<s>", [7]), ("<s>", [100]),
\* ("<s", [100]), ("b.", [100]) and ("b.", [100, 7])
UserPairs ==
    {<< <<60, 115, 62>>, <<7>> >>, << <<60, 115, 62>>, <<100>> >>,
     << <<60, 115>>, <<100>> >>, << <<98, 46>>, <<100>> >>, << <<98, 46>>, <<100, 7>> >>}

\* the longest batch handed to extend_special
MaxBatch == 2

\* the most extend_special calls made on one Tokeneer
MaxExtends == 1

Batches == UNION {[1..n -> UserPairs] : n \in 0..MaxBatch}

\* the longest token sequence handed to Tokeneer::decode
MaxDecode == 2

\* the token sequences handed to Tokeneer::decode: ids of the vocabulary and
\* the first id past it
DecodeInputs(b) == UNION {[1..n -> 0..Len(b.tokens)] : n \in 0..MaxDecode}

InitTok ==
    /\ input \in Vocabularies \cup {VocabTok}
    /\ bpe \in BpeNew(input.vocabs, input.scores, input.is_byte, input.unk)
    /\ pc = "off"
    /\ OffState
    /\ rk = [done |-> FALSE]
    /\ ar = [done |-> FALSE]
    /\ ExtOff

\* Tokeneer::new(method): state "failed" is a panic, "stuck" a call that does
\* not return
TokNew ==
    /\ tk.state = "none"
    /\ \E r \in Inaccessible(bpe) :
          IF r.ret # "done"
          THEN tk' = [state |-> IF r.ret = "cut" THEN "stuck" ELSE "failed",
                      last |-> [op |-> "new"]]
          ELSE LET special == [k \in {x \in DOMAIN r.map : IsAscii(x)} |-> <<r.map[k]>>]
               IN  \E keys \in Orders(DOMAIN special) :
                      LET regex == RegexNew(BuildPattern(keys))
                      IN  tk' = [state |-> IF regex.ok THEN "ready" ELSE "failed",
                                 internal |-> r.map, special |-> special,
                                 keys |-> keys, regex |-> regex, nextend |-> 0,
                                 last |-> [op |-> "new"]]
    /\ UNCHANGED <<bpeVars, rk, ar, lp, md, par>>

\* Tokeneer::extend_special(patterns)
ExtendSpecial ==
    /\ tk.state = "ready"
    /\ tk.last.op \in {"new", "extend"}
    /\ tk.nextend < MaxExtends
    /\ \E batch \in Batches :
          LET r == ExtendFold(tk.special, batch, 1, FALSE)
              last == [op |-> "extend", batch |-> batch, before |-> tk.special,
                       ret |-> r.ret]
          IN  IF r.ret # "done"
              THEN tk' = [tk EXCEPT !.state = "failed", !.special = r.special,
                                    !.nextend = @ + 1, !.last = last]
              ELSE IF ~r.any
              THEN tk' = [tk EXCEPT !.nextend = @ + 1, !.last = last]
              ELSE \E keys \in Orders(DOMAIN r.special) :
                      LET regex == RegexNew(BuildPattern(keys))
                      IN  tk' = [tk EXCEPT !.state = IF regex.ok THEN "ready" ELSE "failed",
                                            !.special = r.special, !.keys = keys,
                                            !.regex = regex, !.nextend = @ + 1,
                                            !.last = last]
    /\ UNCHANGED <<bpeVars, rk, ar, lp, md, par>>

\* Tokeneer::encode(text).  encode and decode read the Tokeneer and leave
\* it as it was, so one call of either is followed up per Tokeneer.
TokEncode ==
    /\ tk.state = "ready"
    /\ tk.last.op \in {"new", "extend"}
    /\ \E t \in TokTexts :
          LET ms == SpecialMatches(tk.regex, t)
          IN  \E r \in EncodeSplit(bpe, tk.special, t, ms, 1, 0, << >>) :
                 tk' = [tk EXCEPT !.last = [op |-> "encode", text |-> t, matches |-> ms,
                                            ret |-> r.ret, out |-> r.out]]
    /\ UNCHANGED <<bpeVars, rk, ar, lp, md, par>>

\* Tokeneer::decode(tokens)
TokDecode ==
    /\ tk.state = "ready"
    /\ tk.last.op \in {"new", "extend"}
    /\ \E toks \in DecodeInputs(bpe) :
          LET r == TokeneerDecode(bpe, toks)
          IN  tk' = [tk EXCEPT !.last = [op |-> "decode", tokens |-> toks, ret |-> r.ret,
                                         str |-> IF r.ret = "done" THEN r.str ELSE << >>]]
    /\ UNCHANGED <<bpeVars, rk, ar, lp, md, par>>

NextTok == TokNew \/ ExtendSpecial \/ TokEncode \/ TokDecode

SpecTok == InitTok /\ [][NextTok]_vars

----------------------------------------------------------------------------
(* Properties of the Tokeneer.                                             *)

\* the outputs the claim describes for the matches ms from number k on: the
\* method's tokens for the gap before each match, the stored sequence of the
\* match, and at the end the method's tokens for the tail
RECURSIVE SplitOutputs(_, _, _, _, _, _)
SplitOutputs(b, special, t, ms, k, start) ==
    IF k > Len(ms)
    THEN {e.out : e \in {x \in Encode(b, Slice(t, start, Len(t))) : x.ret = "done"}}
    ELSE {g.out \o special[Slice(t, ms[k].start, ms[k].end)] \o rest :
            g \in {x \in Encode(b, Slice(t, start, ms[k].start)) : x.ret = "done"},
            rest \in SplitOutputs(b, special, t, ms, k + 1, ms[k].end)}

\* the offsets of t handed to the method: those no match covers
GapOffsets(t, ms) ==
    {p \in 0..(Len(t) - 1) : \A k \in 1..Len(ms) : p < ms[k].start \/ p >= ms[k].end}

\* C11: Tokeneer.encode splits on special literals.  The matches are
\* successive and do not overlap, each is a key of the special map (the lookup
\* of a match never fails), no key starts at an offset left to the method, and
\* a call that returns gives the method's tokens of each gap, the stored
\* sequence of each match and the method's tokens of the tail, in input order.
C11_SplitOnSpecials ==
    (tk.state = "ready" /\ tk.last.op = "encode") =>
        LET t == tk.last.text
            ms == tk.last.matches
        IN  /\ tk.last.ret # "nokey"
            /\ \A k \in 1..Len(ms) :
                  /\ 0 <= ms[k].start /\ ms[k].start <= ms[k].end /\ ms[k].end <= Len(t)
                  /\ k > 1 => ms[k - 1].end <= ms[k].start
                  /\ Slice(t, ms[k].start, ms[k].end) \in DOMAIN tk.special
            /\ \A p \in GapOffsets(t, ms) : \A key \in DOMAIN tk.special :
                  p + Len(key) <= Len(t) => Slice(t, p, p + Len(key)) # key
            /\ tk.last.ret = "done" =>
                  tk.last.out \in SplitOutputs(bpe, tk.special, t, ms, 1, 0)

\* an encode call returned that met two special literals, one of them holding
\* '.', with a gap between them that the method encoded
C11_Witness ==
    /\ tk.state = "ready"
    /\ tk.last.op = "encode"
    /\ tk.last.ret = "done"
    /\ Len(tk.last.matches) = 2
    /\ tk.last.matches[1].end < tk.last.matches[2].start
    /\ \E k \in 1..2 : \E p \in tk.last.matches[k].start..(tk.last.matches[k].end - 1) :
          tk.last.text[p + 1] = 46
    /\ tk.last.out # << >>


\* the sequence key k is bound to once the first n pairs of the batch were
\* taken in order: the one it had before, else the first one given for it
BoundTo(before, batch, n, k) ==
    IF k \in DOMAIN before THEN Some(before[k])
    ELSE LET given == {j \in 1..n : batch[j][1] = k}
         IN  IF given = {} THEN None
             ELSE Some(batch[CHOOSE j \in given : \A h \in given : j <= h][2])

\* the pairs of the batch whose key is bound to another sequence when their
\* turn comes
Conflicts(before, batch) ==
    {n \in 1..Len(batch) :
        LET bound == BoundTo(before, batch, n - 1, batch[n][1])
        IN  bound.some /\ bound.val # batch[n][2]}

\* C12: the conflict rule of extend_special.  The pairs are taken in order.
\* Without a conflict the call returns, every key that was absent is bound to
\* the sequence given for it and every key that was present keeps its
\* sequence.  With a conflict the call fails at the first one, the key in
\* conflict keeps the sequence it had, and so does every key bound before.
C12_ConflictRule ==
    (tk.state \in {"ready", "failed"} /\ tk.last.op = "extend") =>
        LET before == tk.last.before
            batch == tk.last.batch
            bad == Conflicts(before, batch)
            upto == IF bad = {} THEN Len(batch)
                    ELSE (CHOOSE n \in bad : \A h \in bad : n <= h) - 1
        IN  /\ tk.last.ret = (IF bad = {} THEN "done" ELSE "panic")
            /\ DOMAIN tk.special = (DOMAIN before) \cup {batch[j][1] : j \in 1..upto}
            /\ \A k \in DOMAIN tk.special : Some(tk.special[k]) = BoundTo(before, batch, upto, k)
            /\ bad # {} => tk.special[batch[upto + 1][1]] # batch[upto + 1][2]

\* extend_special failed on the second pair of a batch, whose key was present
\* with another sequence, after it had inserted the first pair
C12_Witness ==
    /\ tk.state = "failed"
    /\ tk.last.op = "extend"
    /\ Len(tk.last.batch) = 2
    /\ tk.last.batch[2][1] \in DOMAIN tk.last.before
    /\ tk.last.batch[1][1] \notin DOMAIN tk.last.before
    /\ tk.last.batch[1][1] \in DOMAIN tk.special

----------------------------------------------------------------------------
(* Properties of construction.                                             *)

\* C13: Bpe::new returns no tokenizer when the number of scores differs from
\* the number of pieces supplied, whatever the pieces, scores and hints.
C13_ScoreArity ==
    (pc \in {"built", "failed"} /\ Len(input.scores) # Len(input.vocabs)) => pc = "failed"

----------------------------------------------------------------------------
(* Encode calls side by side on one Bpe.  par.calls[c] is what call c keeps *)
(* on its stack (where it is, its text, IntoIter.i, the tokens returned),   *)
(* par.scratch[s] is a MergeState's marks and merges (IntoIter takes the    *)
(* marks over), with the calls that wrote it as history.                    *)

\* the calls
Calls == {1, 2}

\* the longest text handed to the calls side by side, in characters
MaxParChars == 2

\* texts over a, b, c
RECURSIVE ParTextsUpTo(_)
ParTextsUpTo(n) ==
    IF n = 0 THEN {<< >>}
    ELSE LET shorter == ParTextsUpTo(n - 1)
         IN  shorter \cup {t \o <<c>> : t \in shorter, c \in {97, 98, 99}}

ParTexts == ParTextsUpTo(MaxParChars)

\* one MergeState for all calls, kept by the tokenizer
ScratchShared(c) == 1

\* the MergeState call c works on: the one its own begin_merge made
ScratchOf(c) == c

\* some other call is between its begin_merge and its last token
Mixed(c) == \E d \in Calls \ {c} : par.calls[d].pc \in {"merging", "walking"}

InitPar ==
    /\ input \in Vocabularies
    /\ bpe \in BpeNew(input.vocabs, input.scores, input.is_byte, input.unk)
    /\ pc = "off"
    /\ OffState
    /\ rk = [done |-> FALSE]
    /\ ar = [done |-> FALSE]
    /\ tk = [state |-> "none"]
    /\ lp = [state |-> "none"]
    /\ md = [done |-> FALSE]
    /\ par = [calls |-> [c \in Calls |-> [pc |-> "idle", text |-> << >>, i |-> 0,
                                          out |-> << >>, n |-> 0]],
              scratch |-> [c \in Calls |-> [marks |-> << >>, merges |-> EmptyBag,
                                            by |-> {}]],
              mixed |-> FALSE]

\* call c: begin_merge(text)
ParBegin(c) ==
    /\ par.calls[c].pc = "idle"
    /\ \E t \in ParTexts :
          LET st == BeginMerge(bpe, t)
              s == ScratchOf(c)
          IN  par' = [par EXCEPT
                        !.calls[c] = [@ EXCEPT !.pc = "merging", !.text = t],
                        !.scratch[s] = [marks |-> st.marks, merges |-> st.merges,
                                        by |-> @.by \cup {c}],
                        !.mixed = @ \/ Mixed(c)]
    /\ UNCHANGED <<bpeVars, rk, ar, tk, lp, md>>

\* call c: one merge() of its loop
ParMerge(c) ==
    /\ par.calls[c].pc = "merging"
    /\ par.calls[c].n < Len(par.calls[c].text) + MaxExtra
    /\ LET s == ScratchOf(c)
       IN  \E o \in MergeRun(bpe, par.calls[c].text, par.scratch[s].marks,
                             par.scratch[s].merges) :
              par' = [par EXCEPT
                        !.calls[c] = [@ EXCEPT
                            !.pc = IF o.ret = "true" THEN "merging"
                                   ELSE IF o.ret = "false" THEN "walking" ELSE "panic",
                            !.n = IF o.ret = "true" THEN @ + 1 ELSE @],
                        !.scratch[s] = [marks |-> o.marks, merges |-> o.merges,
                                        by |-> @.by \cup {c}],
                        !.mixed = @ \/ Mixed(c)]
    /\ UNCHANGED <<bpeVars, rk, ar, tk, lp, md>>

\* call c: IntoIter::next
ParWalk(c) ==
    /\ par.calls[c].pc = "walking"
    /\ Len(par.calls[c].out) < Len(par.calls[c].text) + MaxExtra
    /\ LET mk == par.scratch[ScratchOf(c)].marks
           at == par.calls[c].i
       IN  par' = [par EXCEPT
                     !.calls[c] =
                        IF at > Len(mk) THEN [@ EXCEPT !.pc = "panic"]
                        ELSE IF at = Len(mk) THEN [@ EXCEPT !.pc = "done"]
                        ELSE [@ EXCEPT !.i = at + TokenLen(bpe, mk[at + 1].token),
                                       !.out = Append(@, mk[at + 1].token)],
                     !.mixed = @ \/ Mixed(c)]
    /\ UNCHANGED <<bpeVars, rk, ar, tk, lp, md>>

NextPar == \E c \in Calls : ParBegin(c) \/ ParMerge(c) \/ ParWalk(c)

SpecPar == InitPar /\ [][NextPar]_vars

\* every MergeState is written by its own call only, and a call that ended
\* (with its last token or a panic) returned what the same call returns when
\* it runs alone
OwnScratchOwnResult ==
    /\ \A c \in Calls : par.scratch[c].by \subseteq {c}
    /\ \A c \in Calls :
          par.calls[c].pc \in {"done", "panic"} =>
              [ret |-> par.calls[c].pc, out |-> par.calls[c].out]
                  \in Encode(bpe, par.calls[c].text)

\* C14: parallel readers.  However the steps of the calls interleave, no step
\* of a call changes the tokenizer Bpe::new built, every MergeState is written
\* by its own call only, and a call that ended (with its last token or a
\* panic) returned what the same call returns when it runs alone.
C14_ParallelReaders == [][bpe' = bpe]_vars /\ []OwnScratchOwnResult

\* two calls on different texts ended, each after a merge, with steps of one
\* taken while the other was under way
C14_Witness ==
    /\ par.mixed
    /\ \A c \in Calls : par.calls[c].pc = "done" /\ par.calls[c].n >= 1
    /\ par.calls[1].text # par.calls[2].text

----------------------------------------------------------------------------
(* Properties of internal_special and of the empty input.                  *)

\* the ids of sorted_pieces whose own piece encode turns into more than one
\* token
MultiTokenIds(b) ==
    {t \in {b.sorted_pieces[k] : k \in 1..Len(b.sorted_pieces)} :
        \E e \in Encode(b, TokenBytes(b, t)) : e.ret = "done" /\ Len(e.out) > 1}

\* C15: internal specials of BPE.  internal_special(), as Tokeneer::new calls
\* it, returns, and what it returns is exactly the pairs (piece(t), t) for the
\* ids t of sorted_pieces whose piece encodes to more than one token; no id
\* returned is UNK or an id of the byte table.
C15_InternalSpecial ==
    tk.state # "none" =>
        /\ "internal" \in DOMAIN tk
        /\ {<<k, tk.internal[k]>> : k \in DOMAIN tk.internal}
              = {<<TokenBytes(bpe, t), t>> : t \in MultiTokenIds(bpe)}
        /\ \A k \in DOMAIN tk.internal :
              tk.internal[k] # bpe.unk /\ tk.internal[k] \notin BytesRange(bpe.bytes, bpe.unk)

\* C16: empty input.  begin_merge("") creates an empty mark array and an
\* empty queue, merge() on it returns false at once and changes nothing,
\* encode("") returns the empty sequence; Tokeneer::encode("") with an empty
\* special set returns the empty sequence and Tokeneer::decode of the empty
\* sequence returns the empty string.
C16_EmptyInput ==
    /\ bpe.ok =>
          /\ BeginMerge(bpe, << >>).marks = << >>
          /\ BeginMerge(bpe, << >>).merges = EmptyBag
          /\ MergeRun(bpe, << >>, << >>, EmptyBag)
                = {[ret |-> "false", marks |-> << >>, merges |-> EmptyBag]}
          /\ Encode(bpe, << >>) = {[ret |-> "done", out |-> << >>]}
    /\ (/\ tk.state = "ready"
        /\ tk.last.op = "encode"
        /\ tk.last.text = << >>
        /\ DOMAIN tk.special = {})
          => tk.last.ret = "done" /\ tk.last.out = << >>
    /\ (tk.state = "ready" /\ tk.last.op = "decode" /\ tk.last.tokens = << >>)
          => tk.last.ret = "done" /\ tk.last.str = << >>

\* an empty text went through Tokeneer::encode with an empty special set
C16_Witness ==
    /\ tk.state = "ready"
    /\ tk.last.op = "encode"
    /\ tk.last.text = << >>
    /\ DOMAIN tk.special = {}
    /\ tk.last.out = << >>

----------------------------------------------------------------------------
(* bpe/mod.rs: Bpe::from_tokenizer_model.                                  *)

\* One turn of the scan closure at *offset: ret "some" is a record, with its
\* content slice as offsets [s, e) into the buffer and the offset after it;
\* ret "none" ends the scan; ret "panic" is a slice index out of range
\* (total_len - 2 underflows or content is shorter than total_len - 2).  A scan
\* that does not stop on a framing mismatch before the end of the buffer
ScanStepStrict(model, offset) ==
    IF offset > Len(model) THEN [ret |-> "panic"]
    ELSE IF Len(model) - offset >= 3 /\ model[offset + 1] = 10 /\ model[offset + 3] = 10
    THEN LET total_len == model[offset + 2]
             content == offset + 3
         IN  IF total_len < 2 \/ total_len - 2 > Len(model) - content
             THEN [ret |-> "panic"]
             ELSE [ret |-> "some",
                   slice |-> [s |-> content, e |-> content + total_len - 2],
                   offset |-> offset + total_len + 2]
    ELSE IF offset = Len(model) THEN [ret |-> "none"]
    ELSE [ret |-> "panic"]

\* One turn of the scan closure at *offset: ret "some" is a record, with its
\* content slice as offsets [s, e) into the buffer and the offset after it;
\* ret "none" ends the scan; ret "panic" is a slice index out of range
\* (total_len - 2 underflows or content is shorter than total_len - 2).
ScanStep(model, offset) ==
    IF offset > Len(model) THEN [ret |-> "panic"]
    ELSE IF Len(model) - offset >= 3 /\ model[offset + 1] = 10 /\ model[offset + 3] = 10
    THEN LET total_len == model[offset + 2]
             content == offset + 3
         IN  IF total_len < 2 \/ total_len - 2 > Len(model) - content
             THEN [ret |-> "panic"]
             ELSE [ret |-> "some",
                   slice |-> [s |-> content, e |-> content + total_len - 2],
                   offset |-> offset + total_len + 2]
    ELSE [ret |-> "none"]

\* the vocabs iterator on one slice: slice[0], slice[1..][..len], from_utf8
PieceOf(model, sl) ==
    IF sl.e = sl.s THEN [ret |-> "panic"]
    ELSE LET len == model[sl.s + 1]
         IN  IF 1 + len > sl.e - sl.s THEN [ret |-> "panic"]
             ELSE LET piece == Slice(model, sl.s + 1, sl.s + 1 + len)
                  IN  IF IsUtf8(piece) THEN [ret |-> "done", piece |-> piece]
                      ELSE [ret |-> "panic"]

\* f32::total_cmp as an order of integers: the key of the little-endian f32
\* with bytes b
F32Key(b) ==
    LET low == b[1] + 256 * b[2] + 65536 * b[3] + 16777216 * (b[4] % 128)
    IN  IF b[4] < 128 THEN low ELSE -1 - low

\* a byte read_unaligned finds past the end of the buffer: whatever the memory
\* after the buffer holds
PastEnd == 0..255

\* the 4 bytes read_unaligned can find at offset p of the buffer
RECURSIVE ReadFrom(_, _, _)
ReadFrom(model, p, n) ==
    IF n = 0 THEN {<< >>}
    ELSE {<<b>> \o rest :
            b \in (IF p < Len(model) THEN {model[p + 1]} ELSE PastEnd),
            rest \in ReadFrom(model, p + 1, n - 1)}

\* the scores iterator on one slice: slice[len + 2..] cast to f32 and read,
\* whatever the length of that slice.  ret "panic" is the slice index out of
\* range.  A read that runs past the end of the buffer is undefined: it finds
\* whatever the memory there holds, or the memory is not readable and the
\* process is killed (ret "fault").
ScoreOf(model, sl) ==
    LET len == model[sl.s + 1]
    IN  IF len + 2 > sl.e - sl.s THEN {[ret |-> "panic"]}
        ELSE {[ret |-> "done", score |-> F32Key(b)] : b \in ReadFrom(model, sl.s + len + 2, 4)}
                \cup (IF sl.s + len + 2 + 4 > Len(model) THEN {[ret |-> "fault"]} ELSE {})

\* the is_byte iterator: false for 3 records, true for 256, false afterwards
IsByteHint(n) == [k \in 1..n |-> k - 1 >= 3 /\ k - 1 < 3 + 256]

\* scores.into_iter().collect::<Vec<_>>() over the first n slices: the
\* outcomes, the records taken in order, so that the first record whose read
\* panics or faults ends the collection
RECURSIVE DrawScores(_, _, _)
DrawScores(model, slices, n) ==
    IF n = 0 THEN {[ok |-> TRUE, scores |-> << >>]}
    ELSE UNION {IF ~acc.ok THEN {acc}
                ELSE {IF x.ret = "done"
                      THEN [ok |-> TRUE, scores |-> Append(acc.scores, x.score)]
                      ELSE [ok |-> FALSE, err |-> x.ret]
                      : x \in ScoreOf(model, slices[n])}
                : acc \in DrawScores(model, slices, n - 1)}

\* zip(vocabs, is_byte) as collect_with_hint draws it, the first n records:
\* the vocabs iterator is lazy, so record k is sliced and decoded when the zip
\* asks for it, after the closure of collect_with_hint has taken record k - 1.
\* The first record that fails decides the panic.
RECURSIVE DrawPieces(_, _, _)
DrawPieces(model, slices, n) ==
    IF n = 0 THEN [ok |-> TRUE, pieces |-> << >>]
    ELSE LET acc == DrawPieces(model, slices, n - 1)
             p == PieceOf(model, slices[n])
         IN  IF ~acc.ok THEN acc
             ELSE IF p.ret = "panic" THEN [ok |-> FALSE, err |-> "panic"]
             ELSE IF IsByteHint(n)[n] /\ ~AsByteToken(p.piece).some
             THEN [ok |-> FALSE, err |-> "is not a valid byte token"]
             ELSE [ok |-> TRUE, pieces |-> Append(acc.pieces, p.piece)]

\* Self::new(vocabs, scores, is_byte, 0) over the slices scanned: the outcomes.
\* The pieces are drawn inside collect_with_hint; the scores are collected
\* after CompressedVocab::new.
ConstructFrom(model, slices) ==
    LET n == Len(slices)
        drawn == DrawPieces(model, slices, n)
    IN  IF ~drawn.ok THEN {[ok |-> FALSE, err |-> drawn.err]}
        ELSE UNION {IF sc.ok THEN BpeNew(drawn.pieces, sc.scores, IsByteHint(n), 0)
                    ELSE {[ok |-> FALSE, err |-> sc.err]}
                    : sc \in DrawScores(model, slices, n)}

\* one record of a model file: piece, 4 score bytes and the bytes after them
Rec(piece, score, tail) ==
    <<10, Len(piece) + 7 + Len(tail), 10, Len(piece)>> \o piece \o <<21>> \o score \o tail

\* the chunks the buffers are made of: records of <unk> (0.0), a (1.0, no
\* field after the score), b (-1.0), ab (2.0), <0x61> (0.0), a record of a
\* that ends before the last byte of its score, the same two bytes shorter
\* and followed by the first byte of the trainer section, a record of a whose
\* content ends with the piece, a record of a piece that is not UTF-8, the
\* first byte of the trainer section, a record header alone and a record of
\* total_len 1
ModelChunks ==
    {Rec(<<60, 117, 110, 107, 62>>, <<0, 0, 0, 0>>, <<24, 2>>),
     Rec(<<97>>, <<0, 0, 128, 63>>, << >>),
     Rec(<<98>>, <<0, 0, 128, 191>>, <<24, 1>>),
     Rec(<<97, 98>>, <<0, 0, 0, 64>>, << >>),
     Rec(<<60, 48, 120, 54, 49, 62>>, <<0, 0, 0, 0>>, <<24, 6>>),
     <<10, 7, 10, 1, 97, 21, 0, 0, 0>>,
     <<10, 6, 10, 1, 97, 21, 0, 0, 18>>,
     <<10, 4, 10, 1, 97, 21>>,
     Rec(<<255>>, <<0, 0, 0, 0>>, << >>),
     <<18>>,
     <<10, 20, 10>>,
     <<10, 1, 10, 0>>}

\* the most chunks in a buffer
MaxModelChunks == 4

RECURSIVE ModelsUpTo(_)
ModelsUpTo(n) ==
    IF n = 0 THEN {<< >>}
    ELSE LET shorter == ModelsUpTo(n - 1)
         IN  shorter \cup {m \o c : m \in shorter, c \in ModelChunks}

\* what the buffers start with: nothing, or the three records the is_byte
\* iterator gives no hint for (<unk>, a, b), so that the chunks after them are
\* the records 3, 4, ... of the byte range
ModelHeads ==
    {<< >>,
     Rec(<<60, 117, 110, 107, 62>>, <<0, 0, 0, 0>>, <<24, 2>>)
        \o Rec(<<97>>, <<0, 0, 128, 63>>, << >>)
        \o Rec(<<98>>, <<0, 0, 128, 191>>, <<24, 1>>)}

InitModel ==
    /\ input = [ok |-> FALSE]
    /\ bpe = [ok |-> FALSE]
    /\ pc = "off"
    /\ OffState
    /\ rk = [done |-> FALSE]
    /\ ar = [done |-> FALSE]
    /\ tk = [state |-> "none"]
    /\ lp = [state |-> "none"]
    /\ par = << >>
    /\ md \in {[done |-> FALSE, stage |-> "scan", model |-> m, offset |-> 0,
                offsets |-> << >>]
           : m \in {h \o c : h \in ModelHeads, c \in ModelsUpTo(MaxModelChunks)}}

\* from_tokenizer_model, one turn of the scan
ModelScan ==
    /\ md.stage = "scan"
    /\ LET r == ScanStep(md.model, md.offset)
       IN  md' = IF r.ret = "some"
                 THEN [md EXCEPT !.offset = r.offset, !.offsets = Append(@, r.slice)]
                 ELSE IF r.ret = "none"
                 THEN [done |-> FALSE, stage |-> "scanned", model |-> md.model,
                       offset |-> md.offset, offsets |-> md.offsets]
                 ELSE [done |-> TRUE, stage |-> "done", model |-> md.model,
                       offset |-> md.offset, offsets |-> md.offsets, scan |-> "panic",
                       result |-> [ok |-> FALSE, err |-> "panic"]]
    /\ UNCHANGED <<bpeVars, rk, ar, tk, lp, par>>

\* from_tokenizer_model after the scan: the iterators and Self::new
ModelConstruct ==
    /\ md.stage = "scanned"
    /\ \E r \in ConstructFrom(md.model, md.offsets) :
          md' = [done |-> TRUE, stage |-> "done", model |-> md.model,
                 offset |-> md.offset, offsets |-> md.offsets, scan |-> "none",
                 result |-> r]
    /\ UNCHANGED <<bpeVars, rk, ar, tk, lp, par>>

NextModel == ModelScan \/ ModelConstruct

SpecModel == InitModel /\ [][NextModel]_vars

----------------------------------------------------------------------------
(* Properties of from_tokenizer_model.                                     *)

\* the framing 0x0A, total_len, 0x0A does not match at offset off, which is
\* before the end of the buffer
FramingBreakAt(model, off) ==
    /\ off < Len(model)
    /\ ~(Len(model) - off >= 3 /\ model[off + 1] = 10 /\ model[off + 3] = 10)

\* the piece of the record with content slice sl, as the layout places it
RecordPiece(model, sl) == Slice(model, sl.s + 1, sl.s + 1 + model[sl.s + 1])

\* C17 as stated: when the record framing stops matching before the end of the
\* buffer, construction fails: no tokenizer is built from the records read
\* before the break.
C17_MalformedModel ==
    (md.stage = "done" /\ FramingBreakAt(md.model, md.offset)) => ~md.result.ok

\* the content slice sl holds a piece length and a UTF-8 piece of that length
PieceFormed(model, sl) ==
    /\ sl.e > sl.s
    /\ 1 + model[sl.s + 1] <= sl.e - sl.s
    /\ IsUtf8(RecordPiece(model, sl))

\* the content slice sl goes on after the piece at least to the tag byte of
\* the score
ScoreFormed(model, sl) == model[sl.s + 1] + 2 <= sl.e - sl.s

\* the scores of the first n records as the layout places them: the f32 after
\* the tag byte, with any byte for one that lies past the end of the buffer
RECURSIVE RecordScores(_, _, _)
RecordScores(model, slices, n) ==
    IF n = 0 THEN {<< >>}
    ELSE {Append(sc, F32Key(b)) :
            sc \in RecordScores(model, slices, n - 1),
            b \in ReadFrom(model, slices[n].s + model[slices[n].s + 1] + 2, 4)}

\* record k (from 1) is one of the records 3..258, which are taken as byte tokens
InByteRange(k) == k - 1 >= 3 /\ k - 1 < 3 + 256

\* record k of the buffer read has no piece, or is in the byte range with a
\* piece that is not of the form <0xHH>
BadPiece(k) ==
    \/ ~PieceFormed(md.model, md.offsets[k])
    \/ InByteRange(k) /\ ~AsByteToken(RecordPiece(md.model, md.offsets[k])).some

\* C17, amended: when the record framing stops matching before the end of the
\* buffer, the scan ends there without failing and construction goes on with
\* the records read before the break.  The first record, in record order, with
\* no well-formed piece (panic) or with a piece that is not of the form <0xHH>
\* in the byte range 3..258 ("is not a valid byte token") makes construction
\* fail; with no such record a record that ends before the tag byte of its
\* score makes it fail (panic); otherwise the outcome is an outcome of
\* Bpe::new on the pieces and scores of the records with unk = 0 and the byte
\* hint set for the records 3..258, or, when the score of a record is read
\* past the end of the buffer, the process may be killed instead.  A
\* tokenizer that is built has one token per record read, in record order:
\* the byte of the piece for the records 3..258 (entered in the byte table,
\* the last record of a byte winning) and the piece itself for the others.
C17_BreakEndsScan ==
    (md.stage = "done" /\ FramingBreakAt(md.model, md.offset)) =>
        LET n == Len(md.offsets)
            bad == {k \in 1..n : BadPiece(k)}
            hinted == {k \in 1..n : InByteRange(k)}
        IN  /\ md.scan = "none"
            /\ IF bad # {}
               THEN LET first == CHOOSE k \in bad : \A o \in bad : k <= o
                    IN  /\ ~md.result.ok
                        /\ md.result.err = (IF PieceFormed(md.model, md.offsets[first])
                                            THEN "is not a valid byte token" ELSE "panic")
               ELSE IF \E k \in 1..n : ~ScoreFormed(md.model, md.offsets[k])
               THEN ~md.result.ok /\ md.result.err = "panic"
               ELSE \/ \E sc \in RecordScores(md.model, md.offsets, n) :
                          md.result \in BpeNew([k \in 1..n |-> RecordPiece(md.model, md.offsets[k])],
                                               sc, [k \in 1..n |-> InByteRange(k)], 0)
                    \/ /\ md.result = [ok |-> FALSE, err |-> "fault"]
                       /\ \E k \in 1..n :
                             md.offsets[k].s + md.model[md.offsets[k].s + 1] + 6 > Len(md.model)
            /\ md.result.ok =>
                  /\ Len(md.result.tokens) = n
                  /\ md.result.unk = 0
                  /\ \A k \in 1..n :
                        LET piece == RecordPiece(md.model, md.offsets[k])
                        IN  IF k \in hinted
                            THEN TokenBytes(md.result, k - 1) = <<AsByteToken(piece).val>>
                            ELSE TokenBytes(md.result, k - 1) = piece
                  /\ \A x \in 0..255 :
                        LET from == {k \in hinted :
                                       AsByteToken(RecordPiece(md.model, md.offsets[k])).val = x}
                        IN  BytesGet(md.result.bytes, 0, x) =
                               (IF from = {} THEN 0
                                ELSE (CHOOSE k \in from : \A o \in from : o <= k) - 1)

\* a tokenizer of 5 tokens was built from the 5 records before a break: the
\* records 3 and 4 are byte tokens of one byte, and the table holds the later
C17_Witness ==
    /\ md.stage = "done"
    /\ FramingBreakAt(md.model, md.offset)
    /\ Len(md.offsets) = 5
    /\ md.result.ok
    /\ Len(md.result.tokens) = 5
    /\ TokenBytes(md.result, 3) = <<97>>
    /\ BytesGet(md.result.bytes, 0, 97) = 4

----------------------------------------------------------------------------
(* lpe/mod.rs: the longest-prefix tokenizer.                               *)

\* CollectedVocab::collect: a piece is a byte token when as_byte_token reads it
\* as one
Collect(vocabs, unk) ==
    CollectWithHint(vocabs, [k \in 1..Len(vocabs) |-> AsByteToken(vocabs[k]).some], unk)

\* .collect::<PatriciaMap>() of the first n (piece, id) pairs: a key inserted
\* again takes the later id
RECURSIVE TrieFold(_, _, _)
TrieFold(pieces, skip, n) ==
    IF n = 0 THEN << >>
    ELSE LET acc == TrieFold(pieces, skip, n - 1)
         IN  IF (n - 1) \in skip THEN acc ELSE MapInsert(acc, pieces[n], n - 1)

\* Lpe::new
LpeWith(c, cv, unk) ==
    LET n == Len(cv.slices)
        pieces == [k \in 1..n |->
                     Slice(cv.vocabs, cv.slices[k][1], cv.slices[k][1] + cv.slices[k][2])]
    IN  [vocabs |-> cv.vocabs,
         tokens |-> [k \in 1..n |-> [off |-> cv.slices[k][1], len |-> cv.slices[k][2]]],
         trie |-> TrieFold(pieces, BytesRange(c.bytes, unk) \cup {unk}, n),
         bytes |-> c.bytes,
         unk |-> unk]

\* Lpe::new: its outcomes, one for each arena the unstable sort can lead to
LpeNew(vocabs, unk) ==
    LET c == Collect(vocabs, unk)
    IN  {LpeWith(c, cv, unk) : cv \in CompressedVocabs(c.vocabs)}

\* a is a prefix of b
IsPrefixOf(a, b) == Len(a) <= Len(b) /\ SubSeq(b, 1, Len(a)) = a

\* PatriciaMap::get_longest_common_prefix: the longest key that is a prefix of
\* rest, with its value
GetLongestCommonPrefix(trie, rest) ==
    LET keys == {k \in DOMAIN trie : IsPrefixOf(k, rest)}
    IN  IF keys = {} THEN None
        ELSE LET pre == CHOOSE k \in keys : \A o \in keys : Len(o) <= Len(k)
             IN  Some([pre |-> pre, tok |-> trie[pre]])

\* one turn of the loop of Lpe::encode on the remaining text rest: the token pushed
\* and the number of bytes dropped from the front
LpeStep(l, rest) ==
    LET m == GetLongestCommonPrefix(l.trie, rest)
    IN  IF m.some THEN [tok |-> m.val.tok, len |-> Len(m.val.pre)]
        ELSE [tok |-> BytesGet(l.bytes, l.unk, rest[1]), len |-> 1]

\* the pieces the vocabularies of the longest-prefix tokenizer are made of: the
\* empty piece, a, b, ab, ba and <0x62>
LpePool ==
    {<< >>, <<97>>, <<98>>, <<97, 98>>, <<98, 97>>, <<60, 48, 120, 54, 50, 62>>}

\* the longest vocabulary handed to Lpe::new
MaxLpeVocab == 3

LpeInputs ==
    UNION {{[vocabs |-> v, unk |-> u] : v \in [1..n -> LpePool], u \in 0..(n - 1)}
           : n \in 1..MaxLpeVocab}

\* str::lines: the text is cut after every "\n"; a line loses that "\n" and
\* a "\r" before it; what follows the last "\n", when not empty, is a line too
RECURSIVE Lines(_)
Lines(txt) ==
    IF txt = << >> THEN << >>
    ELSE LET nl == {k \in 1..Len(txt) : txt[k] = 10}
         IN  IF nl = {} THEN <<txt>>
             ELSE LET k == CHOOSE j \in nl : \A o \in nl : j <= o
                      line == SubSeq(txt, 1, k - 1)
                      bare == IF line # << >> /\ line[Len(line)] = 13
                              THEN SubSeq(line, 1, Len(line) - 1) ELSE line
                  IN  <<bare>> \o Lines(SubSeq(txt, k + 1, Len(txt)))

\* line.strip_prefix('"').unwrap().strip_suffix('"').unwrap(): None is the
\* panic of either unwrap
StripQuotes(line) ==
    IF line = << >> \/ line[1] # 34 THEN None
    ELSE LET rest == Tail(line)
         IN  IF rest = << >> \/ rest[Len(rest)] # 34 THEN None
             ELSE Some(SubSeq(rest, 1, Len(rest) - 1))

\* Lpe::from_vocabs_txt: the outcomes.  A line that does not begin and end
\* with a quote makes the call panic when collect draws it.
LpeFromVocabsTxt(txt) ==
    LET ls == Lines(txt)
        ps == [k \in 1..Len(ls) |-> StripQuotes(ls[k])]
    IN  IF \E k \in 1..Len(ls) : ~ps[k].some THEN {[ok |-> FALSE, err |-> "panic"]}
        ELSE {[ok |-> TRUE, lpe |-> l] : l \in LpeNew([k \in 1..Len(ls) |-> ps[k].val], 0)}

\* what the vocabulary texts are made of: the lines "a", "ab" and "", b
\* without quotes, a quote alone, and the line ends
TxtChunks == {<<34, 97, 34>>, <<34, 97, 98, 34>>, <<34, 34>>, <<98>>, <<34>>, <<10>>, <<13>>}

\* the most chunks in a vocabulary text
MaxTxtChunks == 4

RECURSIVE TxtsUpTo(_)
TxtsUpTo(n) ==
    IF n = 0 THEN {<< >>}
    ELSE LET shorter == TxtsUpTo(n - 1)
         IN  shorter \cup {t \o c : t \in shorter, c \in TxtChunks}

\* the longest text handed to Lpe::encode, in characters
MaxLpeChars == 3

InitLpe ==
    /\ input \in LpeInputs \cup {[txt |-> t] : t \in TxtsUpTo(MaxTxtChunks)}
    /\ bpe = [ok |-> FALSE]
    /\ pc = "off"
    /\ OffState
    /\ rk = [done |-> FALSE]
    /\ ar = [done |-> FALSE]
    /\ tk = [state |-> "none"]
    /\ md = [done |-> FALSE]
    /\ par = << >>
    /\ lp = [state |-> "none"]

\* Lpe::new(vocabs, unk)
LpeBuild ==
    /\ lp.state = "none"
    /\ "vocabs" \in DOMAIN input
    /\ \E l \in LpeNew(input.vocabs, input.unk) : lp' = [state |-> "built", lpe |-> l]
    /\ UNCHANGED <<bpeVars, rk, ar, tk, md, par>>

\* Lpe::from_vocabs_txt(txt)
LpeBuildFromTxt ==
    /\ lp.state = "none"
    /\ "txt" \in DOMAIN input
    /\ \E r \in LpeFromVocabsTxt(input.txt) :
          lp' = IF r.ok THEN [state |-> "built", lpe |-> r.lpe] ELSE [state |-> "panic"]
    /\ UNCHANGED <<bpeVars, rk, ar, tk, md, par>>

\* Lpe::encode(text) entered: text.as_bytes() and an empty Vec
LpeEncodeBegin ==
    /\ lp.state = "built"
    /\ \E t \in TextsUpTo(MaxLpeChars) :
          lp' = [state |-> "encoding", lpe |-> lp.lpe, text |-> t, at |-> 0,
                 tokens |-> << >>, spans |-> << >>]
    /\ UNCHANGED <<bpeVars, rk, ar, tk, md, par>>

\* one turn of `while !text.is_empty()`, or its end.  The loop is followed for
\* MaxExtra turns more than the text has bytes.
LpeEncodeStep ==
    /\ lp.state = "encoding"
    /\ Len(lp.tokens) < Len(lp.text) + MaxExtra
    /\ IF lp.at = Len(lp.text)
       THEN lp' = [lp EXCEPT !.state = "done"]
       ELSE LET r == LpeStep(lp.lpe, Slice(lp.text, lp.at, Len(lp.text)))
            IN  lp' = [lp EXCEPT !.at = @ + r.len,
                                 !.tokens = Append(@, r.tok),
                                 !.spans = Append(@, [start |-> lp.at, len |-> r.len])]
    /\ UNCHANGED <<bpeVars, rk, ar, tk, md, par>>

NextLpe == LpeBuild \/ LpeBuildFromTxt \/ LpeEncodeBegin \/ LpeEncodeStep

SpecLpe == InitLpe /\ [][NextLpe]_vars

----------------------------------------------------------------------------
(* Properties of the longest-prefix tokenizer.                             *)

\* the keys of the trie that are a prefix of the text from offset at on
PrefixKeys(l, t, at) == {k \in DOMAIN l.trie : IsPrefixOf(k, Slice(t, at, Len(t)))}

\* C18: LPE locality.  Every step of Lpe::encode emits one token and advances
\* by exactly the length of the longest trie prefix matched, or by exactly 1
\* byte with the token bytes[first byte] when no prefix matches; so the spans
\* of the emitted tokens partition the input from left to right: they follow
\* each other from offset 0, none is empty and none passes the end.
C18_LpeLocality ==
    lp.state \in {"encoding", "done"} =>
        /\ Len(lp.tokens) = Len(lp.spans)
        /\ \A k \in 1..Len(lp.spans) :
              LET sp == lp.spans[k]
                  keys == PrefixKeys(lp.lpe, lp.text, sp.start)
              IN  /\ sp.start = (IF k = 1 THEN 0 ELSE lp.spans[k - 1].start + lp.spans[k - 1].len)
                  /\ IF keys # {}
                     THEN \E key \in keys :
                            /\ \A o \in keys : Len(o) <= Len(key)
                            /\ sp.len = Len(key)
                            /\ lp.tokens[k] = lp.lpe.trie[key]
                     ELSE /\ sp.len = 1
                          /\ lp.tokens[k] = BytesGet(lp.lpe.bytes, lp.lpe.unk, lp.text[sp.start + 1])
                  /\ sp.len >= 1
                  /\ sp.start + sp.len <= Len(lp.text)
        /\ lp.state = "done" =>
              Len(lp.text) = (IF lp.spans = << >> THEN 0
                              ELSE lp.spans[Len(lp.spans)].start + lp.spans[Len(lp.spans)].len)

----------------------------------------------------------------------------
(* Invariants of the mark array.                                           *)

\* the positions a walk over mk visits from position p on, advancing by the
\* length of the token at the current position, for at most n steps; fin is
\* where it stands afterwards
RECURSIVE WalkPositions(_, _, _, _)
WalkPositions(b, mk, p, n) ==
    IF p >= Len(mk) \/ n = 0 THEN [seen |-> {}, fin |-> p]
    ELSE LET w == WalkPositions(b, mk, p + TokenLen(b, mk[p + 1].token), n - 1)
         IN  [seen |-> {p} \cup w.seen, fin |-> w.fin]

\* the walk over mk visits exactly the positions of L and ends exactly at the
\* end of the text t, and at each position of L the text holds the bytes of
\* the token found there
PartitionedBy(b, t, mk, L) ==
    LET w == WalkPositions(b, mk, 0, Len(mk) + 1)
    IN  /\ w.seen = L
        /\ w.fin = Len(t)
        /\ \A p \in L :
              /\ p + TokenLen(b, mk[p + 1].token) <= Len(t)
              /\ Slice(t, p, p + TokenLen(b, mk[p + 1].token)) = TokenBytes(b, mk[p + 1].token)

\* C19: mark-array partition invariant.  After begin_merge and after every
\* merge() call the walk from position 0 by token lengths visits exactly the
\* live positions, lands on no interior position, ends exactly at len(T), and
\* at every live position the text bytes equal the stored bytes of the token.
C19_MarkPartition ==
    pc \in {"merging", "walking"} => PartitionedBy(bpe, text, marks, live)

\* the live position immediately before the live position p
PrevLive(p) == CHOOSE q \in live : q < p /\ \A o \in live : o < p => o <= q

\* p is the first live position
FirstLive(p) == \A o \in live : p <= o

\* C20 as stated: back-distance invariant.  After begin_merge and after every
\* merge() call the first live position has back_distance 0 and every other
\* live position has back_distance equal to the byte length of the token at the
\* immediately preceding live position.
C20_BackDistance ==
    pc \in {"merging", "walking"} =>
        \A p \in live :
            IF FirstLive(p) THEN marks[p + 1].back_distance = 0
            ELSE marks[p + 1].back_distance = TokenLen(bpe, marks[PrevLive(p) + 1].token)

----------------------------------------------------------------------------
(* Properties of the merge() calls of one encode.                          *)

\* the positions that became interior to a merged token: begin_merge placed a
\* token there and a merge set the mark to UNK
Absorbed == PlacedAt(bpe, text) \ live

\* C21: stale candidates are harmless.  A merge() call that applies a
\* candidate (pos, (t1, t2)) finds pos and pos + len(t1) both live and holding
\* exactly t1 and t2, and no position that became interior to a merged token
\* gets a token written or is live again after the call: its mark stays UNK
\* and the walk over the marks does not visit it.
C21_StaleHarmless ==
    [][(pc = "merging" /\ nmerge' = nmerge + 1) =>
          LET c == applied'.cand
              p2 == c.pos + TokenLen(bpe, c.pair[1])
          IN  /\ c.pos \in live
              /\ p2 \in live
              /\ marks[c.pos + 1].token = c.pair[1]
              /\ marks[p2 + 1].token = c.pair[2]
              /\ \A p \in Absorbed :
                    /\ marks'[p + 1].token = bpe.unk
                    /\ p \notin live'
                    /\ p \notin WalkPositions(bpe, marks', 0, Len(marks') + 1).seen]_vars

\* a merge was applied while a candidate was queued whose first or second
\* position had become interior
C21_Witness ==
    /\ pc = "merging"
    /\ applied.some
    /\ \E m \in BagToSet(applied.queue) :
          \/ m.pos \in Absorbed \ {applied.cand.pos + TokenLen(bpe, applied.cand.pair[1])}
          \/ (m.pos + TokenLen(bpe, m.pair[1])) \in
                Absorbed \ {applied.cand.pos + TokenLen(bpe, applied.cand.pair[1])}

\* C22: queue growth bound.  Every merge() call that returns true removes at
\* least one candidate from the queue and pushes at most two, so the queue
\* grows by at most 1 per applied merge; and the number of applied merges in
\* one encode is at most the number of live positions after begin_merge
\* minus 1 (none when there is no live position).
C22_QueueGrowth ==
    /\ (pc = "merging" /\ applied.some) =>
          /\ BagCardinality(applied.queue (-) merges) >= 1
          /\ BagCardinality(merges (-) applied.queue) <= 2
          /\ BagCardinality(merges) <= BagCardinality(applied.queue) + 1
    /\ pc \in {"merging", "walking", "done"} =>
          \/ nmerge = 0
          \/ nmerge <= Cardinality(PlacedAt(bpe, text)) - 1

\* a merge was applied that pushed two candidates, so that the queue grew by 1
C22_Witness ==
    /\ pc = "merging"
    /\ applied.some
    /\ BagCardinality(merges (-) applied.queue) = 2
    /\ BagCardinality(merges) = BagCardinality(applied.queue) + 1

\* C23: frame of merge().  A merge() call that returns true for the candidate
\* (p1, (t1, t2), m) changes the mark array only in marks[p1].token (set to
\* m), marks[p2].token (set to UNK, p2 = p1 + len(t1)) and, when
\* p3 = p2 + len(t2) < len(T), marks[p3].back_distance; every other mark
\* field, the text and the tokenizer are unchanged.  A merge() call that
\* returns false changes no mark and leaves the queue empty.
C23_MergeFrame ==
    [][pc = "merging" =>
          /\ text' = text
          /\ bpe' = bpe
          /\ nmerge' = nmerge + 1 =>
                LET c == applied'.cand
                    p1 == c.pos
                    p2 == p1 + TokenLen(bpe, c.pair[1])
                    p3 == p2 + TokenLen(bpe, c.pair[2])
                IN  /\ Len(marks') = Len(marks)
                    /\ marks'[p1 + 1].token = c.merge
                    /\ marks'[p2 + 1].token = bpe.unk
                    /\ \A q \in 0..(Len(marks) - 1) :
                          /\ q \notin {p1, p2} =>
                                marks'[q + 1].token = marks[q + 1].token
                          /\ ~(q = p3 /\ p3 < Len(text)) =>
                                marks'[q + 1].back_distance = marks[q + 1].back_distance
          /\ pc' = "walking" => marks' = marks /\ merges' = EmptyBag]_vars

\* a merge was applied in the middle of the text: it changed the back_distance
\* at p3 and left a mark before p1 and a mark after p3 alone
C23_Witness ==
    /\ pc = "merging"
    /\ applied.some
    /\ LET c == applied.cand
           p3 == c.pos + TokenLen(bpe, c.pair[1]) + TokenLen(bpe, c.pair[2])
       IN  /\ c.pos > 0
           /\ p3 < Len(text)
           /\ marks[p3 + 1].back_distance # applied.marks[p3 + 1].back_distance
           /\ marks[c.pos + 1].token # applied.marks[c.pos + 1].token

\* the pairs of adjacent live positions
LivePairs ==
    {pq \in live \X live :
        pq[1] < pq[2] /\ \A o \in live : ~(pq[1] < o /\ o < pq[2])}

\* the text bytes covered by the tokens at the adjacent live positions p and q
PairText(p, q) == Slice(text, p, q + TokenLen(bpe, marks[q + 1].token))

\* the queue holds a valid candidate for the adjacent live positions p and q
HasCandidate(p, q) ==
    \E m \in BagToSet(merges) :
        /\ m.pos = p
        /\ m.pair = <<marks[p + 1].token, marks[q + 1].token>>
        /\ ValidOn(bpe, marks, m)
        /\ m.merge = FindPiece(bpe, PairText(p, q)).val

\* C24: merge fixpoint.  For a text with no UNK position, between merge()
\* calls every pair of adjacent live tokens whose concatenated text bytes are
\* found by find_piece has a valid candidate in the queue; hence when merge()
\* has returned false no two adjacent tokens of the output have a
\* concatenation that is a piece of the index.
C24_MergeFixpoint ==
    Representable(bpe, text) =>
        /\ pc = "merging" =>
              \A pq \in LivePairs :
                  FindPiece(bpe, PairText(pq[1], pq[2])).some =>
                      HasCandidate(pq[1], pq[2])
        /\ pc \in {"walking", "done"} =>
              \A pq \in LivePairs :
                  ~FindPiece(bpe, PairText(pq[1], pq[2])).some

\* after a merge the merged token has a neighbour on each side whose pair is a
\* piece, and the queue holds more than one candidate
C24_Witness ==
    /\ pc = "merging"
    /\ Representable(bpe, text)
    /\ applied.some
    /\ \E pq \in LivePairs :
          /\ pq[2] = applied.cand.pos
          /\ FindPiece(bpe, PairText(pq[1], pq[2])).some
    /\ \E pq \in LivePairs :
          /\ pq[1] = applied.cand.pos
          /\ FindPiece(bpe, PairText(pq[1], pq[2])).some

----------------------------------------------------------------------------
(* Tokeneer::encode and the order of the keys of the special map.          *)

\* the results of Tokeneer::encode(t) had build_pattern received the keys of
\* special in the order keys
EncodeUnder(b, special, keys, t) ==
    EncodeSplit(b, special, t, SpecialMatches(RegexNew(BuildPattern(keys)), t), 1, 0, << >>)

\* C25: Tokeneer::encode does not depend on the enumeration order of the
\* special map.  For a fixed special map and text the result of encode is the
\* same whatever order build_pattern received the keys in, also when one
\* special literal is a prefix of another.
C25_OrderIndependent ==
    (tk.state = "ready" /\ tk.last.op = "encode") =>
        \A keys \in Orders(DOMAIN tk.special) :
            [ret |-> tk.last.ret, out |-> tk.last.out]
                \in EncodeUnder(bpe, tk.special, keys, tk.last.text)

----------------------------------------------------------------------------
(* Termination of Lpe::encode.                                             *)

\* C26: LPE encode terminates.  For every vocabulary accepted by Lpe::new,
\* also one that contains an empty piece at an id other than unk, and every
\* text, each turn of the loop of Lpe::encode strictly shortens the remaining
\* input, and the loop ends after at most len(text) turns.
C26_LpeTerminates ==
    [][(lp.state = "encoding" /\ lp'.state = "encoding" /\ lp' # lp) =>
          /\ Len(lp.text) - lp'.at < Len(lp.text) - lp.at
          /\ Len(lp'.tokens) <= Len(lp.text)]_vars

============================================================================
